---- MODULE Spec2Model ----
(***************************************************************************)
(* The auto-delete engine of bot/services/auto_delete_engine.py: a timing  *)
(* wheel of pending deletions, a tick loop that collects due entries and   *)
(* hands them to per-chat delete tasks, result application with retries,   *)
(* and the start / schedule / shutdown life cycle.                         *)
(*                                                                         *)
(* Time is an integer clock `now` (monotonic()); one tick interval is      *)
(* TickLen clock units.  asyncio is cooperative: every action below is one *)
(* run of a task between two suspension points (the engine lock is never   *)
(* held across an await, so it is never contended).                        *)
(***************************************************************************)
EXTENDS Integers, Sequences, FiniteSets, TLC

\* ---------------------------------------------------------------- bounds
MaxChat == 2
MaxMsg == 2
MaxTime == 10
MaxCalls == 2
PersistMaxTime == 2
FairIntakeUntil == 2
FairMaxTime == 30
MaxLoops == 3
CoreStarts == 1
PersistStarts == 2
MaxCallers == 2
MaxEntries == 3
RestoreMaxTime == 4
AdvertisedRetryAfter == 3
LongRetryAfter == 6
DriftMaxTime == 16
LongDeleteDelay == 2000
MaxBackoffAttempt == 3

\* ------------------------------------------------- engine configuration
\* tick_interval_seconds, in clock units
TickLen == 3
\* _bucket_count (512 slots at least in the program; a small wheel here)
BucketCount == 3
\* delete_delay_seconds, in clock units
DeleteDelay == 4
\* max_retry_attempts
MaxRetryAttempts == 1
\* worker_concurrency
WorkerConcurrency == 1
\* base_retry_delay_seconds, max_retry_delay_seconds and the 0.5 s floor of
\* _bounded_retry_delay, in clock units
RetryBaseDelay == 1
RetryMaxDelay == 4
RetryFloor == 1
\* maxsize of _persistence_queue (200000 in the program)
QueueMaxSize == 2
\* restore_limit
RestoreLimit == 2
\* the batch sizes of _persistence_loop (500) and _drain_persistence_queue (1000)
LoopBatchMax == 1
DrainBatchMax == 2
\* max_batch_size of the delete worker (100 in the program)
MaxBatchSize == 2
\* the most message ids one delete_messages call takes: min(max_batch_size, 100)
PlatformBatchLimit == 100
\* the least number of slots of the wheel, and the seconds added to the
\* window the wheel covers
MinBucketCount == 512
BufferSeconds == 10
\* metrics_log_interval_seconds and persistence_ttl_hours (the defaults)
MetricsLogInterval == 60
PersistenceTtlHours == 24

None == 0
Handles == {1}
\* the handles of the start() calls of the specification with persistence
StartHandles == {1, 2}
Chats == 1..MaxChat
Messages == 1..MaxMsg
\* chat c has the messages 1 .. MaxMsg - c + 1
Keys == {k \in Chats \X Messages : k[1] + k[2] <= MaxMsg + 1}
\* delay_seconds of a schedule call: None (the default delay) or a number
Delays == {None, -1, 2}
\* the wait a platform error advertises: None or a number
SuggestedDelays == {None, 3}
Kinds == {"bot_content"}
\* the calls of the specification with persistence
PersistKeys == {k \in Keys : k[1] = 1 /\ k[2] = 1}
PersistDelays == {-1}
\* the calls of the specification of the tick loop held up
DriftKeys == {k \in Keys : k[2] = 1}
\* the entry lists handed to the delete worker: the messages of one chat,
\* each at most once, in any order
WorkerMessages == 1..MaxEntries
WorkerEntryLists ==
    {ids \in UNION {[1..n -> WorkerMessages] : n \in 0..MaxEntries} :
        \A i, j \in DOMAIN ids : i # j => ids[i] # ids[j]}
\* the entry lists of the call followed while another call is in progress:
\* the messages 1 .. n
ConcurrentEntryLists == {ids \in WorkerEntryLists : \A i \in DOMAIN ids : ids[i] = i}
\* The documents an earlier process has left in the collection: the first
\* message of each chat was due before this process began, the others are
\* on their first retry and due after the end of the run.
StoredDocument(key) ==
    [due_at |-> IF key[2] = 1 THEN -1 ELSE RestoreMaxTime + 1, attempt |-> key[2] - 1]
RestoreStores == {[key \in keys |-> StoredDocument(key)] : keys \in SUBSET Keys}
SlotIds == 0..(BucketCount - 1)
LoopIds == 1..MaxLoops
Callers == 1..MaxCallers
\* The keyword arguments of AutoDeleteEngine(...): for every option a value
\* the documentation calls invalid (zero or negative) and one or two it
\* allows; times are in clock units.
OptionValues ==
    [delete_delay_seconds : {0, DeleteDelay, LongDeleteDelay},
     tick_interval_seconds : {0, TickLen},
     max_batch_size : {0, MaxBatchSize, PlatformBatchLimit + 1},
     max_retry_attempts : {-1, MaxRetryAttempts},
     retry_base_delay_seconds : {0, RetryBaseDelay},
     retry_max_delay_seconds : {0, RetryMaxDelay},
     worker_concurrency : {0, WorkerConcurrency},
     metrics_log_interval_seconds : {0, MetricsLogInterval},
     persistence_enabled : {FALSE},
     persistence_ttl_hours : {0, PersistenceTtlHours},
     restore_limit : {-1, RestoreLimit}]

VARIABLES
    now,                    \* monotonic()
    persistence_enabled,    \* _persistence_enabled (constructor argument)
    tz_aware,               \* the tz_aware option of the Mongo client (off by default)
    started,                \* _started
    shutting_down,          \* _shutting_down
    bot,                    \* _bot
    current_slot,           \* _current_slot
    slots,                  \* _slots: slot index -> dict key -> entry
    entries,                \* _entries: dict key -> entry
    metrics,                \* _metrics
    tick_loops,             \* the _tick_loop tasks: id -> [pc, next_tick_at]
    tick_task,              \* _tick_task: the id of a tick loop, or None
    metrics_loops,          \* the _metrics_loop tasks that are alive (ids)
    metrics_task,           \* _metrics_task: the id of a metrics loop, or None
    persistence_loops,      \* the _persistence_loop tasks: id -> [pc, batch]
    persistence_task,       \* _persistence_task: the id of a loop, or None
    chat_tasks,             \* the _process_chat_due_entries tasks in flight
    persistence_queue,      \* _persistence_queue
    persistence_drop_count, \* _persistence_drop_count
    persistence_indexes_ready, \* _persistence_indexes_ready
    indexes_lock,           \* _persistence_indexes_lock: its holder, or None
    store,                  \* the pending_deletes collection: key -> document
    callers,                \* start() calls suspended in index creation or restore
    shutdown_call,          \* the shutdown() call in progress: [pc, ...]
    batch_delete_supported, \* _delete_worker._batch_delete_supported
    worker_call,            \* a delete_due_messages call followed step by step
    concurrent_call,        \* a call of another chat task on the same worker
    constructor_call,       \* an AutoDeleteEngine(...) call and the engine it has built
    stalled,                \* history: a tick has been held up past its time
    unwrapped_slot,         \* history: _current_slot without the wrap-around of the wheel
    last_event              \* history: the last rejected call, dropped entry or exception

vars == <<now, persistence_enabled, tz_aware, started, shutting_down, bot, current_slot,
          slots, entries, metrics, tick_loops, tick_task, metrics_loops,
          metrics_task, persistence_loops, persistence_task, chat_tasks,
          persistence_queue, persistence_drop_count, persistence_indexes_ready,
          indexes_lock, store, callers, shutdown_call, batch_delete_supported,
          worker_call, concurrent_call, constructor_call, stalled, unwrapped_slot,
          last_event>>

\* ------------------------------------------------------------- helpers
Max(a, b) == IF a >= b THEN a ELSE b

Min(a, b) == IF a <= b THEN a ELSE b

EmptyDict == [k \in {} |-> None]

DictPut(d, k, v) == [x \in DOMAIN d \cup {k} |-> IF x = k THEN v ELSE d[x]]

DictPop(d, k) == [x \in DOMAIN d \ {k} |-> d[x]]

ScheduledDeleteEntry(chat_id, message_id, due_at, attempt) ==
    [chat_id |-> chat_id, message_id |-> message_id,
     due_at |-> due_at, attempt |-> attempt]

KeyOf(entry) == <<entry.chat_id, entry.message_id>>

PendingDeleteMutation(op, key, due_at_utc, attempt) ==
    [op |-> op, chat_id |-> key[1], message_id |-> key[2],
     due_at_utc |-> due_at_utc, attempt |-> attempt]

AutoDeleteMetrics ==
    [scheduled_count |-> 0, bot_content_scheduled |-> 0, sticker_scheduled |-> 0,
     deleted_count |-> 0, failed_count |-> 0, duplicate_count |-> 0,
     restored_count |-> 0, drift_sum |-> 0, drift_samples |-> 0]

\* The engine object and the tasks and store around it: every field an
\* operation reads or writes.
Eng ==
    [persistence_enabled |-> persistence_enabled, tz_aware |-> tz_aware,
     started |-> started,
     shutting_down |-> shutting_down, bot |-> bot, current_slot |-> current_slot,
     slots |-> slots, entries |-> entries, metrics |-> metrics,
     tick_loops |-> tick_loops, tick_task |-> tick_task,
     metrics_loops |-> metrics_loops, metrics_task |-> metrics_task,
     persistence_loops |-> persistence_loops, persistence_task |-> persistence_task,
     chat_tasks |-> chat_tasks, persistence_queue |-> persistence_queue,
     persistence_drop_count |-> persistence_drop_count,
     persistence_indexes_ready |-> persistence_indexes_ready,
     indexes_lock |-> indexes_lock, store |-> store, callers |-> callers,
     shutdown_call |-> shutdown_call,
     batch_delete_supported |-> batch_delete_supported, worker_call |-> worker_call,
     concurrent_call |-> concurrent_call,
     constructor_call |-> constructor_call, unwrapped_slot |-> unwrapped_slot]

Commit(e) ==
    /\ persistence_enabled' = e.persistence_enabled
    /\ tz_aware' = e.tz_aware
    /\ started' = e.started
    /\ shutting_down' = e.shutting_down
    /\ bot' = e.bot
    /\ current_slot' = e.current_slot
    /\ slots' = e.slots
    /\ entries' = e.entries
    /\ metrics' = e.metrics
    /\ tick_loops' = e.tick_loops
    /\ tick_task' = e.tick_task
    /\ metrics_loops' = e.metrics_loops
    /\ metrics_task' = e.metrics_task
    /\ persistence_loops' = e.persistence_loops
    /\ persistence_task' = e.persistence_task
    /\ chat_tasks' = e.chat_tasks
    /\ persistence_queue' = e.persistence_queue
    /\ persistence_drop_count' = e.persistence_drop_count
    /\ persistence_indexes_ready' = e.persistence_indexes_ready
    /\ indexes_lock' = e.indexes_lock
    /\ store' = e.store
    /\ callers' = e.callers
    /\ shutdown_call' = e.shutdown_call
    /\ batch_delete_supported' = e.batch_delete_supported
    /\ worker_call' = e.worker_call
    /\ concurrent_call' = e.concurrent_call
    /\ constructor_call' = e.constructor_call
    /\ unwrapped_slot' = e.unwrapped_slot

\* ------------------------------------------------------ the time wheel
SlotForDue(due_at) == (due_at \div TickLen) % BucketCount

\* IsDue with a cutoff of a whole tick interval
IsDueWithinTick(entry, t) == entry.due_at <= t + TickLen

\* due_cutoff = now + tick_interval / 2; entry.due_at <= due_cutoff
IsDue(entry, t) == 2 * entry.due_at <= 2 * t + TickLen

\* datetime.now(UTC), on the scale of the clock
UtcNow(t) == t

\* -------------------------------------------------- persistence queue
\* EnqueuePersistenceMutation on a queue without a limit
EnqueuePersistenceMutationUnbounded(e, mutation) ==
    [e EXCEPT !.persistence_queue = Append(@, mutation)]

\* put_nowait, and the drop counter when it raises QueueFull
EnqueuePersistenceMutation(e, mutation) ==
    IF Len(e.persistence_queue) < QueueMaxSize
    THEN [e EXCEPT !.persistence_queue = Append(@, mutation)]
    ELSE [e EXCEPT !.persistence_drop_count = @ + 1]

EnqueuePersistenceUpsert(e, key, due_at_utc, attempt) ==
    EnqueuePersistenceMutation(e, PendingDeleteMutation("upsert", key, due_at_utc, attempt))

EnqueuePersistenceDelete(e, key) ==
    EnqueuePersistenceMutation(e, PendingDeleteMutation("delete", key, None, 0))

\* ----------------------------------------------------- _schedule_entry
ScheduleEntryMetrics(m, kind, restored) ==
    [m EXCEPT !.scheduled_count = @ + 1,
              !.bot_content_scheduled = IF kind = "bot_content" THEN @ + 1 ELSE @,
              !.sticker_scheduled = IF kind = "sticker" THEN @ + 1 ELSE @,
              !.restored_count = IF restored THEN @ + 1 ELSE @]

\* IsDuplicate that finds no key pending
IsDuplicateNever(e, key) == FALSE

\* line 258
IsDuplicate(e, key) == key \in DOMAIN e.entries

\* ScheduleEntry that enqueues the upsert whatever `persist` says
ScheduleEntryAlwaysPersist(e, t, key, delay_seconds, attempt, persist, restored, kind) ==
    LET due_at == t + delay_seconds
        entry == ScheduledDeleteEntry(key[1], key[2], due_at, attempt)
    IN  IF IsDuplicate(e, key)
        THEN [eng |-> [e EXCEPT !.metrics.duplicate_count = @ + 1], ret |-> FALSE]
        ELSE LET slot_index == SlotForDue(due_at)
                 e1 == [e EXCEPT !.slots[slot_index] = DictPut(@, key, entry),
                                 !.entries = DictPut(@, key, entry),
                                 !.metrics = ScheduleEntryMetrics(@, kind, restored)]
                 e2 == IF e.persistence_enabled
                       THEN EnqueuePersistenceUpsert(e1, key, UtcNow(t) + delay_seconds, attempt)
                       ELSE e1
             IN  [eng |-> e2, ret |-> TRUE]

\* [eng: the engine afterwards, ret: the value returned]
ScheduleEntry(e, t, key, delay_seconds, attempt, persist, restored, kind) ==
    LET due_at == t + delay_seconds
        entry == ScheduledDeleteEntry(key[1], key[2], due_at, attempt)
    IN  IF IsDuplicate(e, key)
        THEN [eng |-> [e EXCEPT !.metrics.duplicate_count = @ + 1], ret |-> FALSE]
        ELSE LET slot_index == SlotForDue(due_at)
                 e1 == [e EXCEPT !.slots[slot_index] = DictPut(@, key, entry),
                                 !.entries = DictPut(@, key, entry),
                                 !.metrics = ScheduleEntryMetrics(@, kind, restored)]
                 e2 == IF e.persistence_enabled /\ persist
                       THEN EnqueuePersistenceUpsert(e1, key, UtcNow(t) + delay_seconds, attempt)
                       ELSE e1
             IN  [eng |-> e2, ret |-> TRUE]

\* ------------------------------------------------------------- start
\* Task identities are never reused: a start takes the next unused id for
\* the three tasks it creates.
IdFree(e, i) == e.tick_loops[i].pc = "unborn"

FreeId(e) == CHOOSE i \in LoopIds : IdFree(e, i) /\ \A j \in LoopIds : IdFree(e, j) => i <= j

\* lines 132-136: create the persistence, tick and metrics tasks (none of
\* them has run yet) and set _started
CreateTasks(e) ==
    LET i == FreeId(e)
    IN  [e EXCEPT !.persistence_loops[i] =
                        IF e.persistence_enabled THEN [pc |-> "get", batch |-> <<>>] ELSE @,
                  !.persistence_task = IF e.persistence_enabled THEN i ELSE @,
                  !.tick_loops[i] = [pc |-> "new", next_tick_at |-> 0],
                  !.tick_task = i,
                  !.metrics_loops = @ \cup {i},
                  !.metrics_task = i,
                  !.started = TRUE]

\* lines 125-127
StartPrologue(e, t, b) ==
    [e EXCEPT !.bot = b, !.shutting_down = FALSE, !.current_slot = SlotForDue(t),
              !.unwrapped_slot = t \div TickLen]

\* StartAgain that runs the prologue of a first start
StartAgainPrologue(e, t, b) == StartPrologue(e, t, b)

\* lines 121-123: start() on an engine that is started
StartAgain(e, t, b) == [e EXCEPT !.bot = b]

\* --------------------------------------------- _restore_pending_deletes
\* the documents of the collection sorted by due_at, up to the restore limit
RECURSIVE SortedByDue(_, _)
SortedByDue(docs, keys) ==
    IF keys = {} THEN <<>>
    ELSE LET k == CHOOSE x \in keys : \A y \in keys : docs[x].due_at <= docs[y].due_at
         IN  <<[key |-> k, due_at |-> docs[k].due_at, attempt |-> docs[k].attempt]>>
             \o SortedByDue(docs, keys \ {k})

RestoreCursor(docs) ==
    LET sorted == SortedByDue(docs, DOMAIN docs)
    IN  SubSeq(sorted, 1, Min(Len(sorted), RestoreLimit))

\* A datetime read from the collection: the driver decodes it to an aware
\* datetime if the client was made with tz_aware, and to a naive one if not.
\* datetime.now(UTC) is aware.
StoredDatetime(e, value) == [t |-> value, aware |-> e.tz_aware]

\* line 524, due_at - now_utc: Python subtracts two aware or two naive
\* datetimes and raises TypeError for an aware and a naive one
CanSubtract(due_at, now_aware) == due_at.aware = now_aware

\* [eng, raised: an exception has ended the scan]
RECURSIVE RestorePendingDeletes(_, _, _, _)
RestorePendingDeletes(e, t, now_utc, cursor) ==
    IF cursor = <<>> THEN [eng |-> e, raised |-> FALSE]
    ELSE LET document == Head(cursor)
             due_at == StoredDatetime(e, document.due_at)
             delay_seconds == Max(0, due_at.t - now_utc)
             attempt == IF document.attempt < 0 THEN 0 ELSE document.attempt
             r == ScheduleEntry(e, t, document.key, delay_seconds, attempt,
                                FALSE, TRUE, "")
         IN  IF ~CanSubtract(due_at, TRUE) THEN [eng |-> e, raised |-> TRUE]
             ELSE RestorePendingDeletes(r.eng, t, now_utc, Tail(cursor))

\* --------------------------------------------- schedule_message_delete
\* RequestedDelay without the clamp of a negative delay to zero
RequestedDelayNoClamp(delay_seconds) ==
    IF delay_seconds = None THEN DeleteDelay ELSE delay_seconds

RequestedDelay(delay_seconds) ==
    IF delay_seconds = None THEN DeleteDelay ELSE Max(0, delay_seconds)

\* lines 195-208: after the engine is started
ScheduleStarted(e, t, call) ==
    ScheduleEntry([e EXCEPT !.bot = call.bot], t, call.key,
                  RequestedDelay(call.delay_seconds), 0, TRUE, FALSE, call.kind)

\* What is left of a call once start() has returned.
AfterStart(e, t, call) ==
    IF call.op = "schedule" THEN ScheduleStarted(e, t, call)
    ELSE [eng |-> e, ret |-> TRUE]

IdleCaller == [pc |-> "idle"]

Suspend(e, c, call, pc, t) ==
    [e EXCEPT !.callers[c] = [pc |-> pc, call |-> call, now_utc |-> UtcNow(t)]]

\* _ensure_persistence_indexes up to its first suspension, then
\* _restore_pending_deletes up to its cursor read
EnsureIndexesBegin(e, t, c, call) ==
    IF e.persistence_indexes_ready THEN Suspend(e, c, call, "restore", t)
    ELSE IF e.indexes_lock = None
    THEN Suspend([e EXCEPT !.indexes_lock = c], c, call, "index", t)
    ELSE Suspend(e, c, call, "index_wait", t)

\* Rejected with no check of the shutting-down flag
RejectedNever(e, call) == FALSE

\* lines 189-190
Rejected(e, call) == call.op = "schedule" /\ e.shutting_down

\* A call of start(bot) or schedule_message_delete(...), up to its first
\* suspension or, if it does not suspend, its return.
\* [eng, ret, returned]
BeginCall(e, t, c, call) ==
    IF Rejected(e, call)
    THEN [eng |-> e, ret |-> FALSE, returned |-> TRUE]
    ELSE IF e.started
    THEN LET r == AfterStart(IF call.op = "start" THEN StartAgain(e, t, call.bot) ELSE e,
                             t, call)
         IN  [eng |-> r.eng, ret |-> r.ret, returned |-> TRUE]
    ELSE IF ~e.persistence_enabled
    THEN LET r == AfterStart(CreateTasks(StartPrologue(e, t, call.bot)), t, call)
         IN  [eng |-> r.eng, ret |-> r.ret, returned |-> TRUE]
    ELSE [eng |-> EnsureIndexesBegin(StartPrologue(e, t, call.bot), t, c, call),
          ret |-> FALSE, returned |-> FALSE]

\* create_index has returned: lines 486 and on, up to the cursor read
IndexesCreated(e, t, c) ==
    Suspend([e EXCEPT !.persistence_indexes_ready = TRUE, !.indexes_lock = None],
            c, e.callers[c].call, "restore", t)

\* the indexes lock has been acquired: line 468 and on
IndexesLockAcquired(e, t, c) ==
    IF e.persistence_indexes_ready
    THEN Suspend(e, c, e.callers[c].call, "restore", t)
    ELSE Suspend([e EXCEPT !.indexes_lock = c], c, e.callers[c].call, "index", t)

\* create_index raises: the lock is released on the way out of line 467 and
\* the exception leaves _ensure_persistence_indexes, start() and the call
IndexesFailed(e, c) == [e EXCEPT !.indexes_lock = None, !.callers[c] = IdleCaller]

\* the cursor raises: the exception leaves _restore_pending_deletes, start()
\* and the call
RestoreFailed(e, c) == [e EXCEPT !.callers[c] = IdleCaller]

\* the cursor has delivered the documents: the rest of start() and of the call
\* [eng, ret, raised: the scan has raised and the exception has left start()
\* and the call]
RestoreFetched(e, t, c) ==
    LET call == e.callers[c].call
        restore == RestorePendingDeletes(e, t, e.callers[c].now_utc, RestoreCursor(e.store))
        e1 == [restore.eng EXCEPT !.callers[c] = IdleCaller]
        r == AfterStart(CreateTasks(e1), t, call)
    IN  IF restore.raised THEN [eng |-> e1, ret |-> FALSE, raised |-> TRUE]
        ELSE [eng |-> r.eng, ret |-> r.ret, raised |-> FALSE]

\* ------------------------------------------------ _collect_due_entries
\* The entries of the current slot that stay in the wheel: each one goes to
\* the slot of its due time (the current slot has been emptied first).
Reinserted(slot_entries, t) == {k \in DOMAIN slot_entries : ~IsDue(slot_entries[k], t)}

\* CollectDueEntries that puts no entry back into the wheel
CollectDueEntriesDropStale(e, t) ==
    LET slot_entries == e.slots[e.current_slot]
        stale == Reinserted(slot_entries, t)
    IN  [eng |-> [e EXCEPT !.slots[e.current_slot] = EmptyDict,
                           !.current_slot = (e.current_slot + 1) % BucketCount,
                           !.unwrapped_slot = @ + 1],
         due |-> {slot_entries[k] : k \in DOMAIN slot_entries \ stale}]

\* [eng, due: the entries handed on, a set]
CollectDueEntries(e, t) ==
    LET slot_entries == e.slots[e.current_slot]
        stale == Reinserted(slot_entries, t)
        cleared == [e.slots EXCEPT ![e.current_slot] = EmptyDict]
        wheel == [i \in SlotIds |->
                    LET back == {k \in stale : SlotForDue(slot_entries[k].due_at) = i}
                    IN  [k \in DOMAIN cleared[i] \cup back |->
                            IF k \in back THEN slot_entries[k] ELSE cleared[i][k]]]
    IN  [eng |-> [e EXCEPT !.slots = wheel,
                           !.current_slot = (e.current_slot + 1) % BucketCount,
                           !.unwrapped_slot = @ + 1],
         due |-> {slot_entries[k] : k \in DOMAIN slot_entries \ stale}]

\* ------------------------------------------------- _process_due_entries
\* SemaphoreFree of a semaphore without a limit
SemaphoreFreeAlways(e) == TRUE

\* _worker_semaphore (line 96) can be acquired (line 352): fewer than
\* worker_concurrency chat tasks hold it
SemaphoreFree(e) ==
    Cardinality({x \in e.chat_tasks : x.stage = "exec"}) < WorkerConcurrency

\* One task per chat of due_by_chat, each waiting for the worker semaphore.
ChatTasksFor(id, b, due) ==
    {[loop |-> id, chat_id |-> c, bot |-> b, stage |-> "wait",
      batch |-> {x \in due : x.chat_id = c}] : c \in {x.chat_id : x \in due}}

\* -------------------------------------------------------- _tick_loop
\* next_tick_at += tick_interval; resynchronise when more than 3 ticks late
NextTickAt(next_tick_at, t) ==
    LET advanced == next_tick_at + TickLen
    IN  IF t - advanced > 3 * TickLen THEN t ELSE advanced

\* the drift at the end of an iteration is above three tick intervals
Drifted(next_tick_at, t) == t - (next_tick_at + TickLen) > 3 * TickLen

\* Resynchronise that also moves the pointer to the slot of the time t when
\* it resets next_tick_at
ResynchroniseJumping(e, id, t) ==
    [e EXCEPT !.tick_loops[id].next_tick_at = NextTickAt(@, t),
              !.current_slot = IF Drifted(e.tick_loops[id].next_tick_at, t)
                               THEN SlotForDue(t) ELSE @]

\* the end of an iteration of the loop (lines 298-303): only next_tick_at
\* changes
Resynchronise(e, id, t) ==
    [e EXCEPT !.tick_loops[id].next_tick_at = NextTickAt(@, t)]

\* The loop from the top of an iteration, at time t, up to its next
\* suspension: asyncio.sleep (pc "sleep") or the gather of the chat tasks
\* (pc "gather").  An iteration that is not early and finds nothing due
\* runs into the next one without suspending.
RECURSIVE TickIterate(_, _, _)
TickIterate(e, id, t) ==
    IF e.tick_loops[id].next_tick_at - t > 0
    THEN [e EXCEPT !.tick_loops[id].pc = "sleep"]
    ELSE LET c == CollectDueEntries(e, t)
         IN  IF c.due # {} /\ c.eng.bot # None
             THEN [c.eng EXCEPT !.tick_loops[id].pc = "gather",
                                !.chat_tasks = @ \cup ChatTasksFor(id, c.eng.bot, c.due)]
             ELSE TickIterate(Resynchronise(c.eng, id, t), id, t)

\* ------------------------------------------------- the delete worker
Pow2(n) == IF n <= 0 THEN 1 ELSE 2 ^ n

BoundedRetryDelay(value) == Max(RetryFloor, Min(value, RetryMaxDelay))

ComputeBackoff(entry, suggested_delay) ==
    LET exponential_delay == RetryBaseDelay * Pow2(entry.attempt)
    IN  BoundedRetryDelay(IF suggested_delay # None
                          THEN Max(exponential_delay, suggested_delay)
                          ELSE exponential_delay)

\* What delete_due_messages can return for a batch: every entry in one of
\* deleted, failed, retry; a retry carries the delay of _compute_backoff.
Outcomes(entry) ==
    {[entry |-> entry, to |-> "deleted", delay_seconds |-> 0],
     [entry |-> entry, to |-> "failed", delay_seconds |-> 0]}
    \cup {[entry |-> entry, to |-> "retry", delay_seconds |-> ComputeBackoff(entry, s)] :
            s \in SuggestedDelays}

RECURSIVE DeleteExecutionResults(_)
DeleteExecutionResults(batch) ==
    IF batch = {} THEN {{}}
    ELSE LET x == CHOOSE y \in batch : TRUE
         IN  {r \cup {o} : r \in DeleteExecutionResults(batch \ {x}), o \in Outcomes(x)}

\* --------------------------------- the delete worker, call by call
\* What a call of the platform ends with: it returns, or it raises an
\* exception of a class, with a retry_after attribute and a message text.
PlatformError(cls, retry_after, text) ==
    [cls |-> cls, retry_after |-> retry_after, text |-> text]

Returned == PlatformError("", None, "")

PlatformOutcomes ==
    {Returned,
     PlatformError("AttributeError", None, ""),
     PlatformError("TelegramBadRequest", None, "message to delete not found"),
     PlatformError("TelegramBadRequest", None, "message can't be deleted"),
     PlatformError("TelegramBadRequest", None, ""),
     PlatformError("TelegramForbiddenError", None, ""),
     PlatformError("TelegramRetryAfter", AdvertisedRetryAfter, "flood"),
     PlatformError("TelegramRetryAfter", LongRetryAfter, "flood"),
     PlatformError("TelegramRetryAfter", None, "flood"),
     PlatformError("TelegramNetworkError", None, ""),
     PlatformError("TelegramAPIError", None, "retry after 3"),
     PlatformError("TelegramAPIError", None, ""),
     PlatformError("RuntimeError", None, "")}

\* the classes an exception of class cls is an instance of
Bases(cls) ==
    {cls, "Exception"}
    \cup (IF cls \in {"TelegramBadRequest", "TelegramForbiddenError", "TelegramRetryAfter",
                      "TelegramNetworkError"}
          THEN {"TelegramAPIError"} ELSE {})

IsInstance(exc, cls) == cls \in Bases(exc.cls)

\* the retry-after number that RETRY_AFTER_PATTERN finds in a text, or None
RetryAfterInText(text) == IF text = "retry after 3" THEN 3 ELSE None

IsTemporaryApiError(exc) ==
    \/ IsInstance(exc, "TelegramRetryAfter")
    \/ exc.cls \in {"TelegramNetworkError"}
    \/ exc.text \in {"retry after 3", "flood"}

\* IsAlreadyDeletedOrNotDeletable that knows no such text
NeverAlreadyDeleted(error_text) == FALSE

IsAlreadyDeletedOrNotDeletable(error_text) ==
    error_text \in {"message to delete not found", "message can't be deleted",
                    "message can not be deleted", "message identifier is not specified"}

RetryDelayFromError(exc) ==
    IF exc.retry_after > 0 THEN BoundedRetryDelay(exc.retry_after)
    ELSE IF RetryAfterInText(exc.text) # None
    THEN BoundedRetryDelay(RetryAfterInText(exc.text))
    ELSE None

\* RetryAfterOrOne that leaves the advertised wait out
RetryAfterIgnored(exc) == 1

\* float(exc.retry_after or 1.0)
RetryAfterOrOne(exc) == IF exc.retry_after = None THEN 1 ELSE exc.retry_after

DeleteExecutionResult(deleted, failed, retry) ==
    [deleted |-> deleted, failed |-> failed, retry |-> retry]

RetryDeleteEntry(entry, delay_seconds) == [entry |-> entry, delay_seconds |-> delay_seconds]

\* retry entries for a whole chunk, each with its own backoff
RetryEntries(chunk, suggested_delay) ==
    [i \in 1..Len(chunk) |-> RetryDeleteEntry(chunk[i], ComputeBackoff(chunk[i], suggested_delay))]

\* Extend that leaves the retry list out
ExtendWithoutRetry(result, chunk_result) ==
    DeleteExecutionResult(result.deleted \o chunk_result.deleted,
                          result.failed \o chunk_result.failed,
                          result.retry)

\* lines 68-70
Extend(result, chunk_result) ==
    DeleteExecutionResult(result.deleted \o chunk_result.deleted,
                          result.failed \o chunk_result.failed,
                          result.retry \o chunk_result.retry)

\* ChunkEntries that cuts chunks of one entry more than the batch size
RECURSIVE ChunkEntriesTooLong(_)
ChunkEntriesTooLong(entry_list) ==
    IF entry_list = <<>> THEN <<>>
    ELSE LET n == Min(Len(entry_list), MaxBatchSize + 1)
         IN  <<SubSeq(entry_list, 1, n)>>
             \o ChunkEntriesTooLong(SubSeq(entry_list, n + 1, Len(entry_list)))

RECURSIVE ChunkEntries(_)
ChunkEntries(entry_list) ==
    IF entry_list = <<>> THEN <<>>
    ELSE LET n == Min(Len(entry_list), MaxBatchSize)
         IN  <<SubSeq(entry_list, 1, n)>>
             \o ChunkEntries(SubSeq(entry_list, n + 1, Len(entry_list)))

\* DeleteChunkHandler that takes a bad request for a sign that delete_messages
\* is not supported
DeleteChunkHandlerBadRequestUnsupported(exc) ==
    IF IsInstance(exc, "AttributeError") \/ IsInstance(exc, "TypeError") THEN "unsupported"
    ELSE IF IsInstance(exc, "TelegramBadRequest") THEN "unsupported"
    ELSE IF IsInstance(exc, "TelegramForbiddenError") THEN "forbidden"
    ELSE IF IsInstance(exc, "TelegramRetryAfter") THEN "retry_after"
    ELSE IF IsInstance(exc, "TelegramAPIError") THEN "api_error"
    ELSE IF IsInstance(exc, "Exception") THEN "unexpected"
    ELSE "raise"

\* DeleteChunkHandler without the last clause, `except Exception`
DeleteChunkHandlerNoCatchAll(exc) ==
    IF IsInstance(exc, "AttributeError") \/ IsInstance(exc, "TypeError") THEN "unsupported"
    ELSE IF IsInstance(exc, "TelegramBadRequest") THEN "bad_request"
    ELSE IF IsInstance(exc, "TelegramForbiddenError") THEN "forbidden"
    ELSE IF IsInstance(exc, "TelegramRetryAfter") THEN "retry_after"
    ELSE IF IsInstance(exc, "TelegramAPIError") THEN "api_error"
    ELSE "raise"

\* the except clause of _delete_chunk that takes an exception: the first one
\* that matches (lines 101-140), or none ("raise")
DeleteChunkHandler(exc) ==
    IF IsInstance(exc, "AttributeError") \/ IsInstance(exc, "TypeError") THEN "unsupported"
    ELSE IF IsInstance(exc, "TelegramBadRequest") THEN "bad_request"
    ELSE IF IsInstance(exc, "TelegramForbiddenError") THEN "forbidden"
    ELSE IF IsInstance(exc, "TelegramRetryAfter") THEN "retry_after"
    ELSE IF IsInstance(exc, "TelegramAPIError") THEN "api_error"
    ELSE IF IsInstance(exc, "Exception") THEN "unexpected"
    ELSE "raise"

\* the except clause of _delete_chunk_sequential that takes an exception
\* (lines 164-207)
DeleteMessageHandler(exc) ==
    IF IsInstance(exc, "TelegramBadRequest") THEN "bad_request"
    ELSE IF IsInstance(exc, "TelegramForbiddenError") THEN "forbidden"
    ELSE IF IsInstance(exc, "TelegramRetryAfter") THEN "retry_after"
    ELSE IF IsInstance(exc, "TelegramAPIError") THEN "api_error"
    ELSE IF IsInstance(exc, "Exception") THEN "unexpected"
    ELSE "raise"

EmptyResult == DeleteExecutionResult(<<>>, <<>>, <<>>)

IdleWorkerCall ==
    [pc |-> "idle", has_delete_messages |-> TRUE, entries |-> <<>>, chunks |-> <<>>,
     index |-> 0, chunk_result |-> EmptyResult, result |-> EmptyResult]

\* _delete_chunk_sequential from the top of its loop to the next
\* delete_message call (pc "single"), or, at the end of the chunk, on to the
\* next chunk
RECURSIVE DeleteChunkSequential(_), NextChunk(_)
DeleteChunkSequential(e) ==
    LET w == e.worker_call
    IN  IF w.index <= Len(Head(w.chunks))
        THEN [e EXCEPT !.worker_call.pc = "single"]
        ELSE NextChunk([e EXCEPT !.worker_call.result = Extend(@, w.chunk_result),
                                 !.worker_call.chunks = Tail(@)])

\* the loop of delete_due_messages from its top: the return at line 72, or
\* _delete_chunk for the next chunk up to its first platform call
NextChunk(e) ==
    LET w == e.worker_call
        sequential == [e EXCEPT !.worker_call.index = 1,
                                !.worker_call.chunk_result = EmptyResult]
    IN  IF w.chunks = <<>> THEN [e EXCEPT !.worker_call.pc = "returned"]
        ELSE IF e.batch_delete_supported = "False" THEN DeleteChunkSequential(sequential)
        ELSE IF ~w.has_delete_messages
        THEN DeleteChunkSequential([sequential EXCEPT !.batch_delete_supported = "False"])
        ELSE [e EXCEPT !.worker_call.pc = "multi"]

\* delete_due_messages up to its first platform call or its return
DeleteDueMessages(e, has_delete_messages, entry_list) ==
    NextChunk([e EXCEPT !.worker_call =
                [IdleWorkerCall EXCEPT !.has_delete_messages = has_delete_messages,
                                       !.entries = entry_list,
                                       !.chunks = ChunkEntries(entry_list)]])

\* the chunk is done with chunk_result
ChunkDone(e, chunk_result) ==
    NextChunk([e EXCEPT !.worker_call.result = Extend(@, chunk_result),
                        !.worker_call.chunks = Tail(@)])

\* delete_messages has returned or raised: lines 97-149
DeleteChunk(e, outcome) ==
    LET chunk == Head(e.worker_call.chunks)
        handler == DeleteChunkHandler(outcome)
        sequential == [e EXCEPT !.worker_call.index = 1,
                                !.worker_call.chunk_result = EmptyResult]
    IN  IF outcome = Returned
        THEN ChunkDone([e EXCEPT !.batch_delete_supported = "True"],
                       DeleteExecutionResult(chunk, <<>>, <<>>))
        ELSE IF handler = "unsupported"
        THEN DeleteChunkSequential([sequential EXCEPT !.batch_delete_supported = "False"])
        ELSE IF handler = "bad_request" THEN DeleteChunkSequential(sequential)
        ELSE IF handler = "forbidden"
        THEN ChunkDone(e, DeleteExecutionResult(<<>>, chunk, <<>>))
        ELSE IF handler = "retry_after"
        THEN ChunkDone(e, DeleteExecutionResult(<<>>, <<>>,
                RetryEntries(chunk, BoundedRetryDelay(RetryAfterOrOne(outcome)))))
        ELSE IF handler = "api_error"
        THEN IF ~IsTemporaryApiError(outcome)
             THEN ChunkDone(e, DeleteExecutionResult(<<>>, chunk, <<>>))
             ELSE ChunkDone(e, DeleteExecutionResult(<<>>, <<>>,
                                RetryEntries(chunk, RetryDelayFromError(outcome))))
        ELSE IF handler = "unexpected"
        THEN ChunkDone(e, DeleteExecutionResult(<<>>, <<>>, RetryEntries(chunk, None)))
        ELSE [e EXCEPT !.worker_call.pc = "raised"]

\* delete_message has returned or raised: lines 161-217
DeleteMessage(e, outcome) ==
    LET w == e.worker_call
        entry == Head(w.chunks)[w.index]
        handler == DeleteMessageHandler(outcome)
        deleted == [w.chunk_result EXCEPT !.deleted = Append(@, entry)]
        failed == [w.chunk_result EXCEPT !.failed = Append(@, entry)]
        retry(suggested_delay) ==
            [w.chunk_result EXCEPT !.retry =
                Append(@, RetryDeleteEntry(entry, ComputeBackoff(entry, suggested_delay)))]
        go(chunk_result) ==
            DeleteChunkSequential([e EXCEPT !.worker_call.chunk_result = chunk_result,
                                            !.worker_call.index = @ + 1])
    IN  IF outcome = Returned THEN go(deleted)
        ELSE IF handler = "bad_request"
        THEN IF IsAlreadyDeletedOrNotDeletable(outcome.text) THEN go(deleted) ELSE go(failed)
        ELSE IF handler = "forbidden" THEN go(failed)
        ELSE IF handler = "retry_after" THEN go(retry(RetryAfterOrOne(outcome)))
        ELSE IF handler = "api_error"
        THEN IF ~IsTemporaryApiError(outcome) THEN go(failed)
             ELSE go(retry(RetryDelayFromError(outcome)))
        ELSE IF handler = "unexpected" THEN go(retry(None))
        ELSE [e EXCEPT !.worker_call.pc = "raised"]

\* The worker is one object for all chat tasks (line 85), and up to
\* worker_concurrency of them are inside delete_due_messages at a time: the
\* engine seen from the other call.
OtherCall(e) ==
    [e EXCEPT !.worker_call = e.concurrent_call, !.concurrent_call = e.worker_call]

\* ------------------------------------------------ _apply_delete_result
\* ApplyDeleted that counts the entries and leaves them in the index
RECURSIVE ApplyDeletedKeepingEntry(_, _, _)
ApplyDeletedKeepingEntry(e, t, deleted) ==
    IF deleted = {} THEN e
    ELSE LET entry == CHOOSE x \in deleted : TRUE
             e1 == [e EXCEPT !.metrics.deleted_count = @ + 1,
                             !.metrics.drift_sum = @ + Max(0, t - entry.due_at),
                             !.metrics.drift_samples = @ + 1]
         IN  ApplyDeletedKeepingEntry(e1, t, deleted \ {entry})

\* lines 378-384
RECURSIVE ApplyDeleted(_, _, _)
ApplyDeleted(e, t, deleted) ==
    IF deleted = {} THEN e
    ELSE LET entry == CHOOSE x \in deleted : TRUE
             e1 == [e EXCEPT !.entries = DictPop(@, KeyOf(entry)),
                             !.metrics.deleted_count = @ + 1,
                             !.metrics.drift_sum = @ + Max(0, t - entry.due_at),
                             !.metrics.drift_samples = @ + 1]
         IN  ApplyDeleted(e1, t, deleted \ {entry})

\* ApplyFailed that counts the entries and leaves them in the index
RECURSIVE ApplyFailedKeepingEntry(_, _)
ApplyFailedKeepingEntry(e, failed) ==
    IF failed = {} THEN e
    ELSE LET entry == CHOOSE x \in failed : TRUE
             e1 == [e EXCEPT !.metrics.failed_count = @ + 1]
         IN  ApplyFailedKeepingEntry(e1, failed \ {entry})

RECURSIVE ApplyFailed(_, _)
ApplyFailed(e, failed) ==
    IF failed = {} THEN e
    ELSE LET entry == CHOOSE x \in failed : TRUE
             e1 == [e EXCEPT !.entries = DictPop(@, KeyOf(entry)),
                             !.metrics.failed_count = @ + 1]
         IN  ApplyFailed(e1, failed \ {entry})

\* RetryExhausted that allows one retry more
RetryExhaustedLate(next_attempt) == next_attempt > MaxRetryAttempts + 1

\* RetryExhausted that never gives up
RetryExhaustedNever(next_attempt) == FALSE

\* line 400: next_attempt > self._max_retry_attempts
RetryExhausted(next_attempt) == next_attempt > MaxRetryAttempts

\* ApplyRetry that does not look whether the key is still in the index
RECURSIVE ApplyRetryUnchecked(_, _, _)
ApplyRetryUnchecked(acc, t, retry) ==
    IF retry = {} THEN acc
    ELSE LET item == CHOOSE x \in retry : TRUE
             entry == item.entry
             key == KeyOf(entry)
             next_attempt == entry.attempt + 1
             retry_due_at == t + item.delay_seconds
             retry_entry == ScheduledDeleteEntry(entry.chat_id, entry.message_id,
                                                 retry_due_at, next_attempt)
             acc1 ==
                IF RetryExhausted(next_attempt)
                THEN [acc EXCEPT !.eng.entries = DictPop(@, key),
                                 !.eng.metrics.failed_count = @ + 1,
                                 !.dropped = @ \cup {key}]
                ELSE [acc EXCEPT !.eng.entries = DictPut(@, key, retry_entry),
                                 !.eng.slots[SlotForDue(retry_due_at)] =
                                        DictPut(@, key, retry_entry),
                                 !.upserts = @ \cup
                                    {[key |-> key, attempt |-> next_attempt,
                                      due_at_utc |-> UtcNow(t) + item.delay_seconds]}]
         IN  ApplyRetryUnchecked(acc1, t, retry \ {item})

\* [eng, dropped: the keys given up, upserts: the entries reinserted]
RECURSIVE ApplyRetry(_, _, _)
ApplyRetry(acc, t, retry) ==
    IF retry = {} THEN acc
    ELSE LET item == CHOOSE x \in retry : TRUE
             entry == item.entry
             key == KeyOf(entry)
             e == acc.eng
             next_attempt == entry.attempt + 1
             retry_due_at == t + item.delay_seconds
             retry_entry == ScheduledDeleteEntry(entry.chat_id, entry.message_id,
                                                 retry_due_at, next_attempt)
             acc1 ==
                IF key \notin DOMAIN e.entries THEN acc
                ELSE IF RetryExhausted(next_attempt)
                THEN [acc EXCEPT !.eng.entries = DictPop(@, key),
                                 !.eng.metrics.failed_count = @ + 1,
                                 !.dropped = @ \cup {key}]
                ELSE [acc EXCEPT !.eng.entries = DictPut(@, key, retry_entry),
                                 !.eng.slots[SlotForDue(retry_due_at)] =
                                        DictPut(@, key, retry_entry),
                                 !.upserts = @ \cup
                                    {[key |-> key, attempt |-> next_attempt,
                                      due_at_utc |-> UtcNow(t) + item.delay_seconds]}]
         IN  ApplyRetry(acc1, t, retry \ {item})

RECURSIVE EnqueueDeletes(_, _)
EnqueueDeletes(e, keys) ==
    IF keys = {} THEN e
    ELSE LET k == CHOOSE x \in keys : TRUE
         IN  EnqueueDeletes(EnqueuePersistenceDelete(e, k), keys \ {k})

RECURSIVE EnqueueUpserts(_, _)
EnqueueUpserts(e, upserts) ==
    IF upserts = {} THEN e
    ELSE LET x == CHOOSE y \in upserts : TRUE
         IN  EnqueueUpserts(EnqueuePersistenceUpsert(e, x.key, x.due_at_utc, x.attempt),
                            upserts \ {x})

Entries(result, to) == {o.entry : o \in {x \in result : x.to = to}}

\* [eng, dropped, discarded: the retry directives whose key is not in the index]
ApplyDeleteResult(e, t, result) ==
    LET e1 == ApplyDeleted(e, t, Entries(result, "deleted"))
        e2 == ApplyFailed(e1, Entries(result, "failed"))
        r == ApplyRetry([eng |-> e2, dropped |-> {}, upserts |-> {}], t,
                        {x \in result : x.to = "retry"})
        delete_ops == {KeyOf(x) : x \in Entries(result, "deleted") \cup Entries(result, "failed")}
                        \cup r.dropped
        e3 == IF e.persistence_enabled
              THEN EnqueueUpserts(EnqueueDeletes(r.eng, delete_ops), r.upserts)
              ELSE r.eng
    IN  [eng |-> e3, dropped |-> r.dropped,
         discarded |-> {x \in result : x.to = "retry" /\ KeyOf(x.entry) \notin DOMAIN e2.entries}]

\* ------------------------------------------- _flush_persistence_batch
\* the collection after the operations of a batch, applied one after
\* another in the order of the batch
RECURSIVE BulkWrite(_, _)
BulkWrite(docs, batch) ==
    IF batch = <<>> THEN docs
    ELSE LET mutation == Head(batch)
             key == <<mutation.chat_id, mutation.message_id>>
             written ==
                IF mutation.op = "upsert"
                THEN DictPut(docs, key, [due_at |-> mutation.due_at_utc,
                                         attempt |-> mutation.attempt])
                ELSE DictPop(docs, key)
         IN  BulkWrite(written, Tail(batch))

\* collection.bulk_write(operations, ordered=False) (line 624): the store
\* is free to apply the operations of an unordered bulk write in any order
BulkWriteOutcomes(docs, batch) ==
    {BulkWrite(docs, [i \in DOMAIN batch |-> batch[order[i]]]) :
        order \in {f \in [DOMAIN batch -> DOMAIN batch] :
                    \A i, j \in DOMAIN batch : i # j => f[i] # f[j]}}

\* up to n mutations taken from the queue with get_nowait
TakeBatch(queue, n) == SubSeq(queue, 1, Min(Len(queue), n))

DropBatch(queue, n) == SubSeq(queue, Min(Len(queue), n) + 1, Len(queue))

\* ------------------------------------------------------------ shutdown
\* task.cancel() of the tick task and the metrics task: a cancelled tick
\* loop takes the chat tasks it is gathering down with it.
CancelLoops(e) ==
    LET e1 == IF e.tick_task = None THEN e
              ELSE [e EXCEPT !.tick_loops[e.tick_task].pc = "dead",
                             !.chat_tasks = {x \in @ : x.loop # e.tick_task}]
    IN  IF e.metrics_task = None THEN e1
        ELSE [e1 EXCEPT !.metrics_loops = @ \ {e.metrics_task}]

\* ShutdownClear that also starts the counters afresh
ShutdownClearWithMetrics(e) ==
    [e EXCEPT !.entries = EmptyDict,
              !.slots = [i \in SlotIds |-> EmptyDict],
              !.metrics = AutoDeleteMetrics,
              !.started = FALSE,
              !.shutdown_call = [pc |-> "idle", batch |-> <<>>]]

\* lines 172-177
ShutdownClear(e) ==
    [e EXCEPT !.entries = EmptyDict,
              !.slots = [i \in SlotIds |-> EmptyDict],
              !.started = FALSE,
              !.shutdown_call = [pc |-> "idle", batch |-> <<>>]]

\* lines 168-169: cancel the persistence task and wait for it
ShutdownCancelPersistence(e) ==
    [e EXCEPT !.persistence_loops[e.persistence_task] = [pc |-> "dead", batch |-> <<>>],
              !.shutdown_call = [pc |-> "cancel", batch |-> <<>>]]

\* _drain_persistence_queue from the top of its loop to its next suspension
ShutdownDrain(e) ==
    IF e.persistence_queue = <<>>
    THEN ShutdownCancelPersistence(e)
    ELSE [e EXCEPT !.persistence_queue = DropBatch(@, DrainBatchMax),
                   !.shutdown_call = [pc |-> "drain",
                                      batch |-> TakeBatch(e.persistence_queue, DrainBatchMax)]]

\* lines 163-177, up to the next suspension
ShutdownAfterGather(e) ==
    LET e1 == [e EXCEPT !.tick_task = None, !.metrics_task = None]
    IN  IF e1.persistence_task # None THEN ShutdownDrain(e1) ELSE ShutdownClear(e1)

\* lines 149-161
ShutdownBegin(e) ==
    LET e1 == CancelLoops([e EXCEPT !.shutting_down = TRUE])
    IN  IF e.tick_task # None \/ e.metrics_task # None
        THEN [e1 EXCEPT !.shutdown_call = [pc |-> "gather", batch |-> <<>>]]
        ELSE ShutdownAfterGather(e1)

\* ----------------------------------------------------- the constructor
\* math.ceil(a / b) for b > 0
CeilDiv(a, b) == (a + b - 1) \div b

\* DeleteWorker.__init__: it raises ValueError, or returns the worker
DeleteWorkerInit(max_batch_size, max_retry_delay_seconds, base_retry_delay_seconds) ==
    [raised |-> max_batch_size < 1,
     max_batch_size |-> Min(max_batch_size, PlatformBatchLimit),
     max_retry_delay_seconds |-> max_retry_delay_seconds,
     base_retry_delay_seconds |-> base_retry_delay_seconds]

\* the checks at the top of AutoDeleteEngine.__init__ (lines 65-72)
OptionsRefused(options) ==
    \/ options.delete_delay_seconds < 1
    \/ options.tick_interval_seconds <= 0
    \/ options.max_retry_attempts < 0
    \/ options.worker_concurrency < 1

\* _bucket_count (lines 79-83)
BucketCountOf(options) ==
    Max(MinBucketCount,
        CeilDiv(options.delete_delay_seconds + options.retry_max_delay_seconds
                    + BufferSeconds,
                options.tick_interval_seconds) + 1)

IdleConstructorCall == [pc |-> "idle"]

\* AutoDeleteEngine(**options): the call raises ValueError, or returns the
\* engine with the fields the constructor has set from the options
AutoDeleteEngineInit(options) ==
    LET delete_worker == DeleteWorkerInit(options.max_batch_size,
                                          options.retry_max_delay_seconds,
                                          options.retry_base_delay_seconds)
    IN  IF OptionsRefused(options) \/ delete_worker.raised
        THEN [pc |-> "raised", options |-> options]
        ELSE [pc |-> "returned", options |-> options,
              delete_delay_seconds |-> options.delete_delay_seconds,
              tick_interval_seconds |-> options.tick_interval_seconds,
              max_retry_attempts |-> options.max_retry_attempts,
              metrics_log_interval_seconds |-> options.metrics_log_interval_seconds,
              bucket_count |-> BucketCountOf(options),
              delete_worker |-> delete_worker,
              worker_semaphore |-> options.worker_concurrency,
              persistence_enabled |-> options.persistence_enabled,
              persistence_ttl_hours |-> options.persistence_ttl_hours,
              restore_limit |-> options.restore_limit,
              backoff |-> [suggested_delay |-> None, delays |-> <<>>]]

\* _bounded_retry_delay of a delete worker
BoundedRetryDelayOf(worker, value) ==
    Max(RetryFloor, Min(value, worker.max_retry_delay_seconds))

\* _compute_backoff of a delete worker
ComputeBackoffOf(worker, entry, suggested_delay) ==
    LET exponential_delay == worker.base_retry_delay_seconds * Pow2(entry.attempt)
    IN  BoundedRetryDelayOf(worker,
                            IF suggested_delay # None
                            THEN Max(exponential_delay, suggested_delay)
                            ELSE exponential_delay)

\* ------------------------------------------------------------- history
\* A tick is held up when the clock passes the time it was to run at.
TickOverdue(l, t) ==
    \/ l.pc = "new"
    \/ l.pc = "sleep" /\ t >= l.next_tick_at
    \/ l.pc = "gather" /\ t >= l.next_tick_at + TickLen

\* ------------------------------------------------------------- actions
\* the engine after construction
InitEngine ==
    /\ now = 0
    /\ persistence_enabled \in BOOLEAN
    /\ tz_aware \in BOOLEAN
    /\ started = FALSE
    /\ shutting_down = FALSE
    /\ bot = None
    /\ current_slot = 0
    /\ slots = [i \in SlotIds |-> EmptyDict]
    /\ entries = EmptyDict
    /\ metrics = AutoDeleteMetrics
    /\ tick_loops = [i \in LoopIds |-> [pc |-> "unborn", next_tick_at |-> 0]]
    /\ tick_task = None
    /\ metrics_loops = {}
    /\ metrics_task = None
    /\ persistence_loops = [i \in LoopIds |-> [pc |-> "dead", batch |-> <<>>]]
    /\ persistence_task = None
    /\ chat_tasks = {}
    /\ persistence_queue = <<>>
    /\ persistence_drop_count = 0
    /\ persistence_indexes_ready = FALSE
    /\ indexes_lock = None
    /\ callers = [c \in Callers |-> IdleCaller]
    /\ shutdown_call = [pc |-> "idle", batch |-> <<>>]
    /\ batch_delete_supported = "None"
    /\ worker_call = IdleWorkerCall
    /\ concurrent_call = IdleWorkerCall
    /\ constructor_call = IdleConstructorCall
    /\ stalled = FALSE
    /\ unwrapped_slot = 0
    /\ last_event = "none"

\* the engine after construction, over an empty collection
Init == InitEngine /\ store = EmptyDict

ActiveCallers == {c \in Callers : callers[c].pc # "idle"}

CallsMade ==
    metrics.scheduled_count - metrics.restored_count + metrics.duplicate_count
    + Cardinality({c \in ActiveCallers : callers[c].call.op = "schedule"})

LoopsInUse == Cardinality({i \in LoopIds : ~IdFree(Eng, i)}) + Cardinality(ActiveCallers)

\* The engine is started at any phase of the first tick interval of the
\* clock (later starts repeat these, one slot further on).
CanStart(limit) == LoopsInUse < limit /\ now < TickLen

\* a caller that is not inside a call
FreeCaller(c) == c \in Callers \ ActiveCallers /\ \A d \in Callers \ ActiveCallers : c <= d

StartCall(b) == [op |-> "start", bot |-> b, key |-> <<0, 0>>, delay_seconds |-> None, kind |-> ""]

ScheduleCall(b, key, delay_seconds, kind) ==
    [op |-> "schedule", bot |-> b, key |-> key, delay_seconds |-> delay_seconds, kind |-> kind]

\* start(bot=b)
Start(c, b, limit) ==
    /\ FreeCaller(c)
    /\ started \/ CanStart(limit)
    /\ LET r == BeginCall(Eng, now, c, StartCall(b))
       IN  /\ Commit(r.eng)
           /\ last_event' = last_event
    /\ stalled' = (stalled /\ tick_loops' = tick_loops)
    /\ UNCHANGED now

\* schedule_message_delete(bot=b, chat_id, message_id, delay_seconds, schedule_kind)
Schedule(c, b, key, delay_seconds, kind, limit) ==
    /\ FreeCaller(c)
    /\ CallsMade < MaxCalls
    /\ started \/ shutting_down \/ CanStart(limit)
    /\ LET r == BeginCall(Eng, now, c, ScheduleCall(b, key, delay_seconds, kind))
       IN  /\ Commit(r.eng)
           /\ last_event' = IF shutting_down THEN "rejected" ELSE last_event
    /\ stalled' = (stalled /\ tick_loops' = tick_loops)
    /\ UNCHANGED now

\* create_index returns to a suspended start()
StartIndexesCreated(c) ==
    /\ callers[c].pc = "index"
    /\ Commit(IndexesCreated(Eng, now, c))
    /\ UNCHANGED <<now, stalled, last_event>>

\* a suspended start() gets the indexes lock
StartIndexesLockAcquired(c) ==
    /\ callers[c].pc = "index_wait"
    /\ indexes_lock = None
    /\ Commit(IndexesLockAcquired(Eng, now, c))
    /\ UNCHANGED <<now, stalled, last_event>>

\* the restore cursor delivers; start() and the call around it return
StartRestoreFetched(c) ==
    /\ callers[c].pc = "restore"
    /\ LET r == RestoreFetched(Eng, now, c)
       IN  /\ Commit(r.eng)
           /\ last_event' = IF r.raised THEN "raised" ELSE last_event
           /\ stalled' = (r.raised /\ stalled)
    /\ UNCHANGED now

\* create_index fails with a store error
StartIndexesFailed(c) ==
    /\ callers[c].pc = "index"
    /\ Commit(IndexesFailed(Eng, c))
    /\ last_event' = "raised"
    /\ UNCHANGED <<now, stalled>>

\* the restore cursor fails with a store error
StartRestoreFailed(c) ==
    /\ callers[c].pc = "restore"
    /\ Commit(RestoreFailed(Eng, c))
    /\ last_event' = "raised"
    /\ UNCHANGED <<now, stalled>>

\* The tick loop runs: on its first run, or when its sleep is over.
TickWake(id) ==
    /\ \/ tick_loops[id].pc = "new"
       \/ tick_loops[id].pc = "sleep" /\ now >= tick_loops[id].next_tick_at
    /\ Commit(TickIterate(
            IF tick_loops[id].pc = "new"
            THEN [Eng EXCEPT !.tick_loops[id].next_tick_at = now]
            ELSE Eng,
            id, now))
    /\ last_event' = IF /\ tick_loops[id].pc = "sleep"
                         /\ Drifted(tick_loops[id].next_tick_at, now)
                         /\ tick_loops'[id].pc = "sleep"
                      THEN "resynchronised" ELSE last_event
    /\ UNCHANGED <<now, stalled>>

\* The gather of the chat tasks returns; the iteration ends and the next begins.
TickResume(id) ==
    /\ tick_loops[id].pc = "gather"
    /\ ~\E task \in chat_tasks : task.loop = id
    /\ Commit(TickIterate(Resynchronise(Eng, id, now), id, now))
    /\ last_event' = IF Drifted(tick_loops[id].next_tick_at, now)
                      THEN "resynchronised" ELSE last_event
    /\ UNCHANGED <<now, stalled>>

\* A chat task gets the worker semaphore and calls the delete worker.
ChatTaskAcquire(task) ==
    /\ task.stage = "wait"
    /\ SemaphoreFree(Eng)
    /\ Commit([Eng EXCEPT !.chat_tasks = (@ \ {task}) \cup {[task EXCEPT !.stage = "exec"]}])
    /\ UNCHANGED <<now, stalled, last_event>>

\* The delete worker returns and the task applies the result.
ChatTaskFinish(task, result) ==
    /\ task.stage = "exec"
    /\ LET r == ApplyDeleteResult([Eng EXCEPT !.chat_tasks = @ \ {task}], now, result)
       IN  /\ Commit(r.eng)
           /\ last_event' = IF r.dropped # {} THEN "dropped"
                             ELSE IF r.discarded # {} THEN "discarded"
                             ELSE last_event
    /\ UNCHANGED <<now, stalled>>

\* The metrics loop wakes, takes a snapshot and logs it.
MetricsLog(id) ==
    /\ id \in metrics_loops
    /\ UNCHANGED vars

\* The persistence loop takes a batch from the queue and starts to write it.
PersistenceTake(id) ==
    /\ persistence_loops[id].pc = "get"
    /\ persistence_queue # <<>>
    /\ Commit([Eng EXCEPT !.persistence_loops[id] =
                            [pc |-> "flush", batch |-> TakeBatch(persistence_queue, LoopBatchMax)],
                          !.persistence_queue = DropBatch(@, LoopBatchMax)])
    /\ UNCHANGED <<now, stalled, last_event>>

\* bulk_write returns to the persistence loop
PersistenceFlushed(id) ==
    /\ persistence_loops[id].pc = "flush"
    /\ \E written \in BulkWriteOutcomes(store, persistence_loops[id].batch) :
          Commit([Eng EXCEPT !.store = written,
                             !.persistence_loops[id] = [pc |-> "get", batch |-> <<>>]])
    /\ UNCHANGED <<now, stalled, last_event>>

\* bulk_write fails in the persistence loop: the error is logged (line 626,
\* or line 560 for another exception) and the batch is gone
PersistenceFlushFailed(id) ==
    /\ persistence_loops[id].pc = "flush"
    /\ Commit([Eng EXCEPT !.persistence_loops[id] = [pc |-> "get", batch |-> <<>>]])
    /\ UNCHANGED <<now, stalled, last_event>>

\* delete_due_messages(bot, chat 1, entries): the entries of chat 1 with
\* the message ids given, the last message on its first retry
WorkerCall(has_delete_messages, message_ids) ==
    /\ worker_call.pc \in {"idle", "returned"}
    /\ Commit(DeleteDueMessages(Eng, has_delete_messages,
            [i \in DOMAIN message_ids |->
                ScheduledDeleteEntry(1, message_ids[i], 0,
                                     IF message_ids[i] = MaxEntries THEN 1 ELSE 0)]))
    /\ last_event' = "none"
    /\ UNCHANGED <<now, stalled>>

\* the delete_messages call of the chunk returns or raises
WorkerMultiDelete(outcome) ==
    /\ worker_call.pc = "multi"
    /\ Commit(DeleteChunk(Eng, outcome))
    /\ last_event' = IF outcome = Returned THEN last_event ELSE DeleteChunkHandler(outcome)
    /\ UNCHANGED <<now, stalled>>

\* the delete_message call of an entry returns or raises
WorkerSingleDelete(outcome) ==
    /\ worker_call.pc = "single"
    /\ Commit(DeleteMessage(Eng, outcome))
    /\ last_event' = IF outcome = Returned THEN last_event ELSE DeleteMessageHandler(outcome)
    /\ UNCHANGED <<now, stalled>>

\* While the call followed is inside a platform call, the chat task of
\* another chat of the same tick (with the same bot) calls
\* delete_due_messages(bot, chat 2, entries) for its one entry.
ConcurrentCall(message_ids) ==
    /\ worker_call.pc \in {"multi", "single"}
    /\ concurrent_call.pc \in {"idle", "returned"}
    /\ Commit(OtherCall(DeleteDueMessages(OtherCall(Eng), worker_call.has_delete_messages,
            [i \in DOMAIN message_ids |-> ScheduledDeleteEntry(2, message_ids[i], 0, 0)])))
    /\ UNCHANGED <<now, stalled, last_event>>

\* the delete_messages call of the other chat task returns or raises
ConcurrentMultiDelete(outcome) ==
    /\ concurrent_call.pc = "multi"
    /\ Commit(OtherCall(DeleteChunk(OtherCall(Eng), outcome)))
    /\ UNCHANGED <<now, stalled, last_event>>

\* the delete_message call of the other chat task returns or raises
ConcurrentSingleDelete(outcome) ==
    /\ concurrent_call.pc = "single"
    /\ Commit(OtherCall(DeleteMessage(OtherCall(Eng), outcome)))
    /\ UNCHANGED <<now, stalled, last_event>>

\* The result of delete_due_messages as _apply_delete_result goes through
\* it: every entry of the three lists with the list it is in.
ResultOutcomes(result) ==
    {[entry |-> result.deleted[i], to |-> "deleted", delay_seconds |-> 0] :
        i \in DOMAIN result.deleted}
    \cup {[entry |-> result.failed[i], to |-> "failed", delay_seconds |-> 0] :
            i \in DOMAIN result.failed}
    \cup {[entry |-> result.retry[i].entry, to |-> "retry",
           delay_seconds |-> result.retry[i].delay_seconds] : i \in DOMAIN result.retry}

\* _process_chat_due_entries(bot, chat 1, entries) for entries the tick loop
\* has collected (they are in the index and in no slot): the task holds the
\* semaphore and calls delete_due_messages
ChatTaskCall(b, has_delete_messages, message_ids) ==
    /\ worker_call.pc = "idle"
    /\ chat_tasks = {}
    /\ message_ids # <<>>
    /\ LET entry_list == [i \in DOMAIN message_ids |->
                            ScheduledDeleteEntry(1, message_ids[i], 0,
                                IF message_ids[i] = MaxEntries THEN 1 ELSE 0)]
           batch == {entry_list[i] : i \in DOMAIN entry_list}
           index == [k \in {KeyOf(x) : x \in batch} |->
                        CHOOSE x \in batch : KeyOf(x) = k]
           task == [loop |-> 1, chat_id |-> 1, bot |-> b, stage |-> "exec", batch |-> batch]
       IN  Commit(DeleteDueMessages([Eng EXCEPT !.bot = b, !.entries = index,
                                                !.chat_tasks = {task}],
                                    has_delete_messages, entry_list))
    /\ last_event' = "none"
    /\ UNCHANGED <<now, stalled>>

\* delete_due_messages has returned to the chat task, which applies the result
ChatTaskReturn(task) ==
    /\ worker_call.pc = "returned"
    /\ ChatTaskFinish(task, ResultOutcomes(worker_call.result))

\* shutdown(), up to its first suspension or its return
Shutdown ==
    /\ shutdown_call.pc = "idle"
    /\ LET e == ShutdownBegin(Eng)
       IN  /\ Commit(e)
           /\ last_event' = last_event
    /\ UNCHANGED <<now, stalled>>

\* the cancelled tick and metrics tasks have ended
ShutdownGathered ==
    /\ shutdown_call.pc = "gather"
    /\ LET e == ShutdownAfterGather(Eng)
       IN  /\ Commit(e)
           /\ last_event' = last_event
    /\ UNCHANGED <<now, stalled>>

\* bulk_write returns to _drain_persistence_queue
ShutdownDrained ==
    /\ shutdown_call.pc = "drain"
    /\ \E written \in BulkWriteOutcomes(store, shutdown_call.batch) :
          Commit(ShutdownDrain([Eng EXCEPT !.store = written]))
    /\ UNCHANGED <<now, stalled, last_event>>

\* bulk_write fails with a store error in _drain_persistence_queue: logged
\* at line 626, and the drain goes on with the next batch
ShutdownDrainFailed ==
    /\ shutdown_call.pc = "drain"
    /\ Commit(ShutdownDrain(Eng))
    /\ UNCHANGED <<now, stalled, last_event>>

\* the cancelled persistence task has ended
ShutdownCancelled ==
    /\ shutdown_call.pc = "cancel"
    /\ Commit(ShutdownClear([Eng EXCEPT !.persistence_task = None]))
    /\ last_event' = last_event
    /\ UNCHANGED <<now, stalled>>

\* the clock moves on
Advance(limit) ==
    /\ now < limit
    /\ now' = now + 1
    /\ stalled' = (stalled \/ \E i \in LoopIds : TickOverdue(tick_loops[i], now))
    /\ Commit(Eng)
    /\ UNCHANGED last_event

\* AutoDeleteEngine(**options)
Construct(options) ==
    /\ constructor_call.pc = "idle"
    /\ Commit([Eng EXCEPT !.constructor_call = AutoDeleteEngineInit(options)])
    /\ last_event' = IF constructor_call'.pc = "raised" THEN "raised" ELSE last_event
    /\ UNCHANGED <<now, stalled>>

\* The delete worker of the engine built computes the retry delays of an
\* entry that fails at every attempt 0 .. MaxBackoffAttempt, with a failure
\* that advertises the wait suggested_delay or none: delays[a + 1] is the
\* delay at attempt a.
ConstructedBackoff(suggested_delay) ==
    /\ constructor_call.pc = "returned"
    /\ constructor_call.backoff.delays = <<>>
    /\ Commit([Eng EXCEPT !.constructor_call.backoff =
            [suggested_delay |-> suggested_delay,
             delays |-> [i \in 1..(MaxBackoffAttempt + 1) |->
                            ComputeBackoffOf(constructor_call.delete_worker,
                                             ScheduledDeleteEntry(1, 1, 0, i - 1),
                                             suggested_delay)]]])
    /\ UNCHANGED <<now, stalled, last_event>>

\* ------------------------------------------------------ specifications
\* The running engine without persistence: the wheel, the tick loop and the
\* chat tasks over MaxTime clock units.
InitCore == Init /\ ~persistence_enabled /\ ~tz_aware

Next ==
    \/ Advance(MaxTime)
    \/ \E b \in Handles : Start(1, b, CoreStarts)
    \/ \E b \in Handles, key \in Keys, d \in Delays, kind \in Kinds :
          Schedule(1, b, key, d, kind, CoreStarts)
    \/ \E id \in LoopIds : TickWake(id)
    \/ \E id \in LoopIds : TickResume(id)
    \/ \E task \in chat_tasks : ChatTaskAcquire(task)
    \/ \E task \in chat_tasks : \E result \in DeleteExecutionResults(task.batch) :
          ChatTaskFinish(task, result)
    \/ \E id \in LoopIds : MetricsLog(id)

Spec == InitCore /\ [][Next]_vars

\* The life cycle of an engine with persistence, one call at a time:
\* start() suspends in index creation and in the restore, the persistence
\* loop writes the queue to the store, shutdown() drains it, and the engine
\* is started again.
InitPersist == Init /\ persistence_enabled

NextPersist ==
    \/ Advance(PersistMaxTime)
    \/ \E b \in StartHandles : Start(1, b, PersistStarts)
    \/ \E b \in Handles, key \in PersistKeys, d \in PersistDelays, kind \in Kinds :
          Schedule(1, b, key, d, kind, PersistStarts)
    \/ StartIndexesCreated(1)
    \/ StartRestoreFetched(1)
    \/ \E id \in LoopIds : TickWake(id)
    \/ \E id \in LoopIds : TickResume(id)
    \/ \E task \in chat_tasks : ChatTaskAcquire(task)
    \/ \E task \in chat_tasks : \E result \in DeleteExecutionResults(task.batch) :
          ChatTaskFinish(task, result)
    \/ \E id \in LoopIds : MetricsLog(id)
    \/ \E id \in LoopIds : PersistenceTake(id)
    \/ \E id \in LoopIds : PersistenceFlushed(id)
    \/ Shutdown
    \/ ShutdownGathered
    \/ ShutdownDrained
    \/ ShutdownCancelled

SpecPersist == InitPersist /\ [][NextPersist]_vars

\* The same life cycle over a store that can fail: every call to the store
\* (create_index, the restore cursor, bulk_write) either returns or raises.
\* The clock stands still.
NextStoreFail ==
    \/ \E b \in Handles : Start(1, b, PersistStarts)
    \/ \E b \in Handles, key \in PersistKeys, d \in PersistDelays, kind \in Kinds :
          Schedule(1, b, key, d, kind, PersistStarts)
    \/ StartIndexesCreated(1)
    \/ StartIndexesFailed(1)
    \/ StartRestoreFetched(1)
    \/ StartRestoreFailed(1)
    \/ \E id \in LoopIds : TickWake(id)
    \/ \E id \in LoopIds : TickResume(id)
    \/ \E task \in chat_tasks : ChatTaskAcquire(task)
    \/ \E task \in chat_tasks : \E result \in DeleteExecutionResults(task.batch) :
          ChatTaskFinish(task, result)
    \/ \E id \in LoopIds : MetricsLog(id)
    \/ \E id \in LoopIds : PersistenceTake(id)
    \/ \E id \in LoopIds : PersistenceFlushed(id)
    \/ \E id \in LoopIds : PersistenceFlushFailed(id)
    \/ Shutdown
    \/ ShutdownGathered
    \/ ShutdownDrained
    \/ ShutdownDrainFailed
    \/ ShutdownCancelled

SpecStoreFail == InitPersist /\ [][NextStoreFail]_vars

\* A process that begins with documents of an earlier process in the
\* collection: start() restores them, and the tick loop, the chat tasks and
\* the persistence loop work them off.  There are no schedule calls.
InitRestore == InitEngine /\ persistence_enabled /\ store \in RestoreStores

NextRestore ==
    \/ Advance(RestoreMaxTime)
    \/ \E b \in Handles : Start(1, b, CoreStarts)
    \/ StartIndexesCreated(1)
    \/ StartRestoreFetched(1)
    \/ \E id \in LoopIds : TickWake(id)
    \/ \E id \in LoopIds : TickResume(id)
    \/ \E task \in chat_tasks : ChatTaskAcquire(task)
    \/ \E task \in chat_tasks : \E result \in DeleteExecutionResults(task.batch) :
          ChatTaskFinish(task, result)
    \/ \E id \in LoopIds : MetricsLog(id)
    \/ \E id \in LoopIds : PersistenceTake(id)
    \/ \E id \in LoopIds : PersistenceFlushed(id)

SpecRestore == InitRestore /\ [][NextRestore]_vars

\* The delete worker on its own: calls of delete_due_messages, one after
\* another on the same worker, against a platform that answers each
\* delete_messages and delete_message call in any of its ways.
NextWorker ==
    \/ \E has_delete_messages \in BOOLEAN, message_ids \in WorkerEntryLists :
          WorkerCall(has_delete_messages, message_ids)
    \/ \E outcome \in PlatformOutcomes : WorkerMultiDelete(outcome)
    \/ \E outcome \in PlatformOutcomes : WorkerSingleDelete(outcome)

SpecWorker == InitCore /\ [][NextWorker]_vars

\* Two chat tasks of one tick inside the delete worker at the same time
\* (worker_concurrency is 6 by default): the calls of one are followed in
\* full, the other deletes one message of another chat.
NextConcurrentWorker ==
    \/ \E has_delete_messages \in BOOLEAN, message_ids \in ConcurrentEntryLists :
          WorkerCall(has_delete_messages, message_ids)
    \/ \E outcome \in PlatformOutcomes : WorkerMultiDelete(outcome)
    \/ \E outcome \in PlatformOutcomes : WorkerSingleDelete(outcome)
    \/ ConcurrentCall(<<1>>)
    \/ \E outcome \in PlatformOutcomes : ConcurrentMultiDelete(outcome)
    \/ \E outcome \in PlatformOutcomes : ConcurrentSingleDelete(outcome)

SpecConcurrentWorker == InitCore /\ [][NextConcurrentWorker]_vars

\* A chat task from the call of the delete worker to the result applied to
\* the engine.
NextChatTask ==
    \/ \E b \in Handles, has_delete_messages \in BOOLEAN, message_ids \in WorkerEntryLists :
          ChatTaskCall(b, has_delete_messages, message_ids)
    \/ \E outcome \in PlatformOutcomes : WorkerMultiDelete(outcome)
    \/ \E outcome \in PlatformOutcomes : WorkerSingleDelete(outcome)
    \/ \E task \in chat_tasks : ChatTaskReturn(task)

SpecChatTask == InitCore /\ [][NextChatTask]_vars

\* The tick loop held up: the engine without persistence over DriftMaxTime
\* clock units, long enough for a delete call to take more than three tick
\* intervals, with the first message of each chat scheduled for deletion at
\* once.
NextDrift ==
    \/ Advance(DriftMaxTime)
    \/ \E b \in Handles : Start(1, b, CoreStarts)
    \/ \E b \in Handles, key \in DriftKeys, d \in PersistDelays, kind \in Kinds :
          Schedule(1, b, key, d, kind, CoreStarts)
    \/ \E id \in LoopIds : TickWake(id)
    \/ \E id \in LoopIds : TickResume(id)
    \/ \E task \in chat_tasks : ChatTaskAcquire(task)
    \/ \E task \in chat_tasks : \E result \in DeleteExecutionResults(task.batch) :
          ChatTaskFinish(task, result)

SpecDrift == InitCore /\ [][NextDrift]_vars

\* The constructor, called with any combination of option values, and the
\* retry delays of the delete worker of the engine it returns.
NextConfig ==
    \/ \E options \in OptionValues : Construct(options)
    \/ \E suggested_delay \in SuggestedDelays : ConstructedBackoff(suggested_delay)

SpecConfig == InitCore /\ [][NextConfig]_vars

\* Calls that overlap: a start() or schedule call arrives while another is
\* suspended inside start(), and shutdown() arrives at any point.
NextRace ==
    \/ \E c \in Callers, b \in Handles : Start(c, b, MaxLoops)
    \/ \E c \in Callers, b \in Handles, key \in PersistKeys, d \in PersistDelays, kind \in Kinds :
          Schedule(c, b, key, d, kind, MaxLoops)
    \/ \E c \in Callers : StartIndexesCreated(c)
    \/ \E c \in Callers : StartIndexesLockAcquired(c)
    \/ \E c \in Callers : StartRestoreFetched(c)
    \/ \E id \in LoopIds : TickWake(id)
    \/ \E id \in LoopIds : TickResume(id)
    \/ \E task \in chat_tasks : ChatTaskAcquire(task)
    \/ \E task \in chat_tasks : \E result \in DeleteExecutionResults(task.batch) :
          ChatTaskFinish(task, result)
    \/ Shutdown
    \/ ShutdownGathered
    \/ ShutdownDrained
    \/ ShutdownCancelled

SpecRace == InitPersist /\ [][NextRace]_vars
\* The engine under fair scheduling: the tick loop and the chat tasks run
\* whenever they can, and the clock moves only when none of them can run.
\* Calls arrive up to FairIntakeUntil; the clock stops at FairMaxTime.
Runnable ==
    \/ \E i \in LoopIds :
          \/ tick_loops[i].pc = "new"
          \/ tick_loops[i].pc = "sleep" /\ now >= tick_loops[i].next_tick_at
          \/ tick_loops[i].pc = "gather" /\ ~\E task \in chat_tasks : task.loop = i
    \/ chat_tasks # {}

AdvanceWhenIdle == ~Runnable /\ Advance(FairMaxTime)

\* a step of the clock or of a task
Progress ==
    \/ AdvanceWhenIdle
    \/ \E id \in LoopIds : TickWake(id)
    \/ \E id \in LoopIds : TickResume(id)
    \/ \E task \in chat_tasks : ChatTaskAcquire(task)
    \/ \E task \in chat_tasks : \E result \in DeleteExecutionResults(task.batch) :
          ChatTaskFinish(task, result)

NextFair ==
    \/ Progress
    \/ \E b \in Handles : Start(1, b, CoreStarts)
    \/ \E b \in Handles, key \in Keys, d \in Delays, kind \in Kinds :
          now <= FairIntakeUntil /\ Schedule(1, b, key, d, kind, CoreStarts)

\* The event loop runs a task that is ready, and the clock goes on when
\* none is.
SpecFair == InitCore /\ [][NextFair]_vars /\ WF_vars(Progress)

\* ---------------------------------------------------------- properties
\* C1: on an engine that is started and not shutting down, a schedule call
\* for a key that is not in the pending index returns true, puts one entry
\* for the key, with due time now + max(0, delay) (the default delay when
\* none is given) and attempt 0, into the index and into exactly one wheel
\* slot, and adds exactly one to the scheduled counter.
ScheduleAcceptsNewKey ==
    [][\A b \in Handles, key \in Keys, d \in Delays, kind \in Kinds :
        (/\ started /\ ~shutting_down /\ key \notin DOMAIN entries
         /\ Schedule(1, b, key, d, kind, CoreStarts))
        => LET delay == IF d = None THEN DeleteDelay ELSE IF d < 0 THEN 0 ELSE d
               entry == [chat_id |-> key[1], message_id |-> key[2],
                         due_at |-> now + delay, attempt |-> 0]
           IN  /\ BeginCall(Eng, now, 1, ScheduleCall(b, key, d, kind)).ret = TRUE
               /\ entries' = [k \in DOMAIN entries \cup {key} |->
                                IF k = key THEN entry ELSE entries[k]]
               /\ \E i \in SlotIds :
                    slots' = [slots EXCEPT ![i] = [k \in DOMAIN @ \cup {key} |->
                                                    IF k = key THEN entry ELSE @[k]]]
               /\ metrics'.scheduled_count = metrics.scheduled_count + 1]_vars

\* C1 witness: two keys accepted, the second by a started engine, both in the
\* index with attempt 0 and each in one slot
ScheduleAcceptsNewKeyWitness ==
    /\ started /\ ~shutting_down
    /\ metrics.scheduled_count = 2
    /\ Cardinality(DOMAIN entries) = 2
    /\ \A k \in DOMAIN entries :
         /\ entries[k].attempt = 0
         /\ Cardinality({i \in SlotIds : k \in DOMAIN slots[i]}) = 1

\* the entries that wait in the wheel
InWheel == UNION {{slots[i][k] : k \in DOMAIN slots[i]} : i \in SlotIds}

\* the entries that have been collected and handed to a chat task
Collected == UNION {task.batch : task \in chat_tasks}

\* C2: as long as every tick has run at its time, an accepted entry does not
\* wait in the wheel for more than one tick interval past its due time.
CollectedWithinOneTick ==
    ~stalled => \A entry \in InWheel : entry.attempt = 0 => now <= entry.due_at + TickLen

\* C3 as stated: no entry is in the hands of a chat task before its due time.
NeverCollectedBeforeDue ==
    \A entry \in Collected : entry.due_at <= now

\* C3: no entry is collected more than half a tick interval before its due
\* time.
NeverCollectedHalfTickBeforeDue ==
    \A entry \in Collected : 2 * entry.due_at <= 2 * now + TickLen

\* C3 witness: an entry is handed to a chat task ahead of its due time
CollectedAheadOfDue ==
    \E task \in chat_tasks : \E entry \in task.batch :
        task.stage = "wait" /\ entry.attempt = 0 /\ entry.due_at > now

EngineState ==
    <<started, shutting_down, current_slot, slots, entries, metrics, tick_loops,
      tick_task, metrics_loops, metrics_task, persistence_loops, persistence_task,
      chat_tasks, persistence_queue, persistence_drop_count, store>>

\* C9: a schedule call on an engine whose shutdown() has been called, with
\* no start since, returns false and changes nothing: index, slots,
\* counters and persistence queue stay as they are and no task is created.
ScheduleAfterShutdownRejected ==
    [][\A b \in Handles, key \in PersistKeys, d \in PersistDelays, kind \in Kinds :
        (shutting_down /\ Schedule(1, b, key, d, kind, PersistStarts))
        => /\ BeginCall(Eng, now, 1, ScheduleCall(b, key, d, kind)).ret = FALSE
           /\ BeginCall(Eng, now, 1, ScheduleCall(b, key, d, kind)).returned
           /\ UNCHANGED EngineState]_vars

\* C9 witness: a schedule call has been rejected by an engine that
\* shutdown() has stopped
RejectedAfterShutdown ==
    last_event = "rejected" /\ shutting_down /\ ~started /\ shutdown_call.pc = "idle"

\* the slots that hold an entry for the key
SlotsOf(key) == {i \in SlotIds : key \in DOMAIN slots[i]}

\* C5: no key is in more than one wheel slot (the index, a dict, holds a
\* key at most once).
OneLiveEntryPerKey ==
    \A key \in Keys : Cardinality(SlotsOf(key)) <= 1

\* the chat tasks that hold an entry for the key
TasksOf(key) == {task \in chat_tasks : \E entry \in task.batch : KeyOf(entry) = key}

\* C8: no key is in the hands of two chat tasks at once, and a key that a
\* chat task holds is in no wheel slot.
NoConcurrentDeleteAttempts ==
    \A key \in Keys :
        /\ Cardinality(TasksOf(key)) <= 1
        /\ TasksOf(key) # {} => SlotsOf(key) = {}

\* the tasks that are alive
TickLoopsRunning == {i \in LoopIds : tick_loops[i].pc \in {"new", "sleep", "gather"}}

PersistenceLoopsRunning == {i \in LoopIds : persistence_loops[i].pc \in {"get", "flush"}}

\* a step in which shutdown() returns
ShutdownReturns ==
    (Shutdown \/ ShutdownGathered \/ ShutdownCancelled) /\ shutdown_call'.pc = "idle"

\* C10: when shutdown() returns, the index and every slot are empty and no
\* tick, metrics or persistence loop is running.
ShutdownLeavesNothing ==
    [][ShutdownReturns =>
        /\ entries' = EmptyDict
        /\ \A i \in SlotIds : slots'[i] = EmptyDict
        /\ TickLoopsRunning' = {}
        /\ metrics_loops' = {}
        /\ PersistenceLoopsRunning' = {}]_vars

\* C6 as stated: an entry that has failed max_retry_attempts times is no
\* longer pending (attempt counts the failures an entry has had).
DroppedAfterMaxRetryAttemptsFailures ==
    \A key \in DOMAIN entries : entries[key].attempt < MaxRetryAttempts

\* the entries of a result that come back as transient failures
Retried(result) == {o.entry : o \in {x \in result : x.to = "retry"}}

\* C6: an entry is dropped at its failure number max_retry_attempts + 1 (the
\* first attempt and max_retry_attempts retries), not before: an earlier
\* failure leaves it pending with one attempt more, the last one takes it out
\* of the index, and the failed counter goes up by exactly one for each
\* entry dropped or failed for good.
DroppedAfterRetriesExhausted ==
    [][\A task \in chat_tasks : task.stage = "exec" =>
        \A result \in DeleteExecutionResults(task.batch) :
            ChatTaskFinish(task, result)
            => LET last == {x \in Retried(result) : x.attempt >= MaxRetryAttempts}
               IN  /\ \A x \in last : KeyOf(x) \notin DOMAIN entries'
                   /\ \A x \in Retried(result) \ last :
                        KeyOf(x) \in DOMAIN entries =>
                            /\ KeyOf(x) \in DOMAIN entries'
                            /\ entries'[KeyOf(x)].attempt = x.attempt + 1
                   /\ metrics'.failed_count = metrics.failed_count
                        + Cardinality({x \in last : KeyOf(x) \in DOMAIN entries})
                        + Cardinality({o \in result : o.to = "failed"})]_vars

\* C6 witness: the only entry scheduled has been dropped after its last retry
DroppedOnce ==
    /\ last_event = "dropped"
    /\ metrics.scheduled_count = 1 /\ metrics.failed_count = 1 /\ metrics.deleted_count = 0
    /\ entries = EmptyDict

\* C7: under fair scheduling a pending index that holds entries becomes
\* empty, so every entry that is accepted leaves it in the end, and no entry
\* is handed to the executor more than max_retry_attempts + 1 times (attempt
\* counts the earlier hand-overs).
EveryEntryLeaves ==
    /\ (entries # EmptyDict) ~> (entries = EmptyDict)
    /\ [](\A entry \in Collected : entry.attempt <= MaxRetryAttempts)

\* C7 witness: an entry is at the executor for its last retry
LastRetryAtExecutor ==
    \E task \in chat_tasks : \E entry \in task.batch :
        task.stage = "exec" /\ entry.attempt = MaxRetryAttempts

\* C11: start(handle) on an engine that is started binds the handle and
\* leaves the pending index, the wheel slots, the current-slot pointer, the
\* counters and the running loops as they are; a chat task created for due
\* entries carries the handle that is bound when it is created.
StartOnStartedRebindsOnly ==
    [][/\ \A b \in StartHandles :
            (started /\ Start(1, b, PersistStarts))
            => /\ bot' = b
               /\ UNCHANGED <<started, shutting_down, entries, slots, current_slot,
                              metrics, tick_loops, tick_task, metrics_loops,
                              metrics_task, persistence_loops, persistence_task,
                              chat_tasks, persistence_queue, store>>
       /\ \A task \in chat_tasks' \ chat_tasks :
            task.stage = "wait" => task.bot = bot]_vars

\* C11 witness: a start() on the started engine has bound the second handle
\* after the entry was scheduled with the first, and the chat task of the
\* entry carries the second handle
DispatchedWithNewHandle ==
    /\ started /\ bot = 2 /\ metrics.restored_count = 0
    /\ \E task \in chat_tasks : task.bot = 2 /\ task.batch # {}

\* C12: at most one tick loop, one metrics loop and one persistence loop of
\* the engine is running, whatever start and schedule calls overlap.
AtMostOneLoopOfEachKind ==
    /\ Cardinality(TickLoopsRunning) <= 1
    /\ Cardinality(metrics_loops) <= 1
    /\ Cardinality(PersistenceLoopsRunning) <= 1

\* C13: no failure of the durable store (index creation, restore scan, bulk
\* write) leaves schedule, start or shutdown as an exception.
NoStoreFailurePropagates ==
    last_event # "raised"

\* the entries of the three lists of a result, one after another
ResultEntries(result) ==
    result.deleted \o result.failed \o [i \in DOMAIN result.retry |-> result.retry[i].entry]

\* C14: when delete_due_messages returns, each entry of its input is in
\* exactly one of the lists deleted, failed and retry, once, and the lists
\* hold nothing else, whatever the platform answered to each call.
EachEntryInExactlyOneList ==
    worker_call.pc = "returned" =>
        LET listed == ResultEntries(worker_call.result)
        IN  /\ \A i \in DOMAIN worker_call.entries :
                 Cardinality({j \in DOMAIN listed : listed[j] = worker_call.entries[i]}) = 1
            /\ \A j \in DOMAIN listed :
                 \E i \in DOMAIN worker_call.entries : listed[j] = worker_call.entries[i]

\* C14 witness: a call with two chunks has returned after the multi-delete
\* of the first chunk fell back to one-by-one deletion, with an entry in
\* each of the three lists
FallbackFilledAllLists ==
    /\ worker_call.pc = "returned" /\ Len(worker_call.entries) = MaxEntries
    /\ batch_delete_supported = "None"
    /\ worker_call.result.deleted # <<>>
    /\ worker_call.result.failed # <<>>
    /\ worker_call.result.retry # <<>>

\* C15: delete_due_messages never ends with an exception, whatever the
\* platform calls raise: forbidden, malformed, rate-limited, transient and
\* unexpected exceptions all end in the result lists.
DeleteWorkerNeverRaises ==
    worker_call.pc # "raised"

\* C15 witness: the call has returned its result after the last platform
\* call raised an exception of no expected class
ReturnedAfterUnexpectedException ==
    /\ worker_call.pc = "returned" /\ last_event = "unexpected"
    /\ worker_call.result.retry # <<>>

\* C16: a fresh engine with persistence that is started over a collection
\* of k documents (k not above the restore limit) has, when start() is
\* through the restore, every stored key pending with the due time
\* now + max(0, stored due time - now_utc) and the stored attempt, and its
\* restored counter is k.
RestoreBringsBackEveryDocument ==
    [][(/\ Cardinality(DOMAIN store) <= RestoreLimit
        /\ entries = EmptyDict /\ metrics = AutoDeleteMetrics
        /\ StartRestoreFetched(1))
       => /\ \A key \in DOMAIN store :
                /\ key \in DOMAIN entries'
                /\ entries'[key].due_at = now + Max(0, store[key].due_at - callers[1].now_utc)
                /\ entries'[key].attempt = store[key].attempt
          /\ metrics'.restored_count = Cardinality(DOMAIN store)]_vars

\* the keys restored from documents that were due before the process began
RestoredPastDue == {key \in DOMAIN entries \cap DOMAIN store : store[key].due_at < 0}

\* C17: the first run of the tick loop after start() hands every entry that
\* was restored from a document already past its due time to a chat task.
RestoredPastDueCollectedByFirstTick ==
    [][\A id \in LoopIds :
        (tick_loops[id].pc = "new" /\ TickWake(id))
        => \A key \in RestoredPastDue : entries[key] \in Collected']_vars

\* C18: when shutdown() cancels the persistence task, the queue is empty and
\* the task holds no batch that it has taken from the queue and not yet
\* written, so every mutation produced before shutdown() was called is in
\* the store when shutdown() returns.
ShutdownWritesEveryMutation ==
    [][(shutdown_call.pc # "cancel" /\ shutdown_call'.pc = "cancel")
       => /\ persistence_queue' = <<>>
          /\ \A id \in LoopIds : persistence_loops[id].batch = <<>>]_vars

\* the chat tasks that are inside a call of the delete worker
InsideExecutor == {task \in chat_tasks : task.stage = "exec"}

\* C19: at no time are more chat tasks inside a call of the delete worker
\* than the worker concurrency allows, however many chats are due in a tick.
ExecutorCallsWithinConcurrency ==
    Cardinality(InsideExecutor) <= WorkerConcurrency

\* C19 witness: two chats are due in the same tick; as many chat tasks as
\* the worker concurrency allows are inside the delete worker and another
\* one of the same tick waits for the semaphore
ChatTaskWaitsForSemaphore ==
    /\ Cardinality(InsideExecutor) = WorkerConcurrency
    /\ \E task \in InsideExecutor : \E other \in chat_tasks :
         other.stage = "wait" /\ other.loop = task.loop /\ other.chat_id # task.chat_id

\* C20: no step of the engine makes a metrics counter smaller: scheduled,
\* deleted, failed, duplicate, restored and the number of drift samples only
\* grow, through shutdown() and a later start() as well.
CountersNeverDecrease ==
    [][/\ metrics'.scheduled_count >= metrics.scheduled_count
       /\ metrics'.deleted_count >= metrics.deleted_count
       /\ metrics'.failed_count >= metrics.failed_count
       /\ metrics'.duplicate_count >= metrics.duplicate_count
       /\ metrics'.restored_count >= metrics.restored_count
       /\ metrics'.drift_samples >= metrics.drift_samples]_vars

\* C20 witness: the engine has been shut down and started again (its tick
\* task is the second one) and still shows the entry scheduled and deleted
\* before the shutdown
CountersKeptAcrossRestart ==
    /\ started /\ ~shutting_down /\ tick_task = 2
    /\ metrics.scheduled_count = 1 /\ metrics.deleted_count = 1
    /\ metrics.drift_samples = 1 /\ metrics.restored_count = 0

\* the engine that a constructor call has returned
Constructed == constructor_call.pc = "returned"

\* C21: every engine the constructor returns holds, for each recognised
\* option, a positive value within its bound: a call with a zero or negative
\* value of any option has raised instead.
ConstructedOptionsValid ==
    Constructed =>
        /\ constructor_call.delete_delay_seconds >= 1
        /\ constructor_call.tick_interval_seconds > 0
        /\ constructor_call.delete_worker.max_batch_size \in 1..PlatformBatchLimit
        /\ constructor_call.max_retry_attempts >= 0
        /\ constructor_call.delete_worker.base_retry_delay_seconds > 0
        /\ constructor_call.delete_worker.max_retry_delay_seconds > 0
        /\ constructor_call.worker_semaphore >= 1
        /\ constructor_call.metrics_log_interval_seconds > 0
        /\ constructor_call.persistence_ttl_hours > 0
        /\ constructor_call.restore_limit > 0

\* the entries of a list of chunks, in order
RECURSIVE Concatenated(_)
Concatenated(chunks) ==
    IF chunks = <<>> THEN <<>> ELSE Head(chunks) \o Concatenated(Tail(chunks))

\* the chunks of the call that the worker has not finished, the one it is
\* working on first
ChunksLeft == worker_call.chunks

\* the entries that have an outcome so far in the chunk the worker handles
\* one by one
HandledOneByOne ==
    IF worker_call.pc = "single"
    THEN worker_call.chunk_result.deleted \o worker_call.chunk_result.failed
            \o worker_call.chunk_result.retry
    ELSE <<>>

\* C22: the n entries of a call are cut into ceil(n / b) chunks of at most b
\* entries (b the batch size of the worker) whose concatenation is the list
\* handed in; the worker takes the chunks in order, so the chunks left are
\* always the end of the list, the entries with an outcome are the ones
\* before it, and when the call returns no chunk is left.
ChunkedInOrder ==
    worker_call.pc # "idle" =>
        LET n == Len(worker_call.entries)
            left == Concatenated(ChunksLeft)
            done == n - Len(left)
        IN  /\ \A i \in DOMAIN ChunksLeft : Len(ChunksLeft[i]) \in 1..MaxBatchSize
            /\ \A i \in DOMAIN ChunksLeft : i < Len(ChunksLeft) => Len(ChunksLeft[i]) = MaxBatchSize
            /\ left = SubSeq(worker_call.entries, done + 1, n)
            /\ ChunksLeft # <<>> => done % MaxBatchSize = 0
            /\ Len(ChunksLeft) = CeilDiv(n - done, MaxBatchSize)
            /\ Len(worker_call.result.deleted) + Len(worker_call.result.failed)
                    + Len(worker_call.result.retry) = done
            /\ worker_call.pc = "single" => Len(HandledOneByOne) < Len(Head(ChunksLeft))
            /\ worker_call.pc = "returned" => ChunksLeft = <<>>

\* the worker is at the second, shorter chunk of a call with more entries
\* than one batch takes
SecondChunkReached ==
    /\ worker_call.pc = "multi"
    /\ Len(worker_call.entries) = MaxBatchSize + 1
    /\ Len(ChunksLeft) = 1
    /\ Len(worker_call.result.deleted) + Len(worker_call.result.failed)
            + Len(worker_call.result.retry) = MaxBatchSize

\* the rate-limited outcomes of a platform call
RateLimited == {o \in PlatformOutcomes : o.cls = "TelegramRetryAfter"}

\* the entries that a platform call in progress is about: the chunk of a
\* delete_messages call, the entry of a delete_message call
Affected ==
    IF worker_call.pc = "multi"
    THEN {Head(worker_call.chunks)[i] : i \in DOMAIN Head(worker_call.chunks)}
    ELSE IF worker_call.pc = "single"
    THEN {Head(worker_call.chunks)[worker_call.index]}
    ELSE {}

\* the retry directives of the call so far
RetryDirectives(call) ==
    {call.result.retry[i] : i \in DOMAIN call.result.retry}
    \cup {call.chunk_result.retry[i] : i \in DOMAIN call.chunk_result.retry}

TransientDelays ==
    IF Constructed /\ constructor_call.backoff.suggested_delay = None
    THEN constructor_call.backoff.delays
    ELSE <<>>

\* C24: for every engine the constructor returns, the retry delay of a
\* transient failure lies between the floor and the configured ceiling at
\* every attempt, and does not decrease from one attempt to the next.
TransientDelayWithinFloorAndCeiling ==
    \A i \in DOMAIN TransientDelays :
        /\ TransientDelays[i] >= RetryFloor
        /\ TransientDelays[i] <= constructor_call.delete_worker.max_retry_delay_seconds
        /\ i > 1 => TransientDelays[i] >= TransientDelays[i - 1]

\* a step of a tick loop
TickStep == \E id \in LoopIds : TickWake(id) \/ TickResume(id)

\* the slot the pointer has visited last
LastVisited == (current_slot + BucketCount - 1) % BucketCount

\* C25: _collect_due_entries takes every entry out of the current slot and
\* moves the pointer on by one slot (mod the number of slots), and each entry
\* it has taken out is in the due batch or back in the slot of its due time;
\* the other slots keep their entries.  So over a step of the tick loop every
\* entry of the wheel is in the slot of its due time or in the batch of a
\* chat task afterwards.
TickLosesNoEntry ==
    [][TickStep =>
        LET c == CollectDueEntries(Eng, now)
        IN  /\ c.eng.current_slot = (current_slot + 1) % BucketCount
            /\ \A k \in DOMAIN slots[current_slot] :
                  LET entry == slots[current_slot][k]
                      home == c.eng.slots[SlotForDue(entry.due_at)]
                  IN  IF entry \in c.due
                      THEN \A i \in SlotIds : k \notin DOMAIN c.eng.slots[i]
                      ELSE k \in DOMAIN home /\ home[k] = entry
            /\ \A k \in DOMAIN c.eng.slots[current_slot] :
                  k \in DOMAIN slots[current_slot] /\ ~IsDue(slots[current_slot][k], now)
            /\ \A i \in SlotIds \ {current_slot} : \A k \in DOMAIN slots[i] :
                  k \in DOMAIN c.eng.slots[i] /\ c.eng.slots[i][k] = slots[i][k]
            /\ c.eng.entries = entries
            /\ \A entry \in InWheel :
                  \/ entry \in Collected'
                  \/ /\ KeyOf(entry) \in DOMAIN slots'[SlotForDue(entry.due_at)]
                     /\ slots'[SlotForDue(entry.due_at)][KeyOf(entry)] = entry]_vars

\* a tick has handed an entry to a chat task and an entry that is not due is
\* in the slot it has visited
CollectedAndPutBack ==
    /\ \E id \in LoopIds : tick_loops[id].pc = "gather"
    /\ Collected # {}
    /\ \E k \in DOMAIN slots[LastVisited] : ~IsDue(slots[LastVisited][k], now)

\* the slots the pointer moves over in a step, the one it leaves first
Passed ==
    {(current_slot + j) % BucketCount :
        j \in 0..(((current_slot' - current_slot + BucketCount) % BucketCount) - 1)}

\* C26: the pointer moves only in a tick, each collection moves it to the
\* next slot, and a step of the tick loop, whatever the drift at its
\* beginning (above three tick intervals too, when next_tick_at is reset),
\* has swept every slot the pointer moves over: no entry that is due stays
\* behind in one of them.
NoSlotSkipped ==
    [][/\ current_slot' # current_slot => TickStep \/ ~started
       /\ TickStep =>
            /\ CollectDueEntries(Eng, now).eng.current_slot
                    = (current_slot + 1) % BucketCount
            /\ \A i \in Passed : \A k \in DOMAIN slots'[i] : ~IsDue(slots'[i][k], now)]_vars

\* the tick loop has reset next_tick_at after a drift of more than three
\* tick intervals, and the tick that followed at once has found an entry due
\* in the next slot
CollectedAfterResynchronising ==
    /\ last_event = "resynchronised"
    /\ \E id \in LoopIds : tick_loops[id].pc = "gather" /\ tick_loops[id].next_tick_at = now
    /\ \E task \in chat_tasks : task.stage = "wait"

\* C27: when the tick loop visits a slot, every entry it finds there (put in
\* by a schedule call with a delay up to the delete delay, or by a retry with
\* a delay up to the retry ceiling) is due: none is found ahead of its time
\* and put back to wait for the next turn of the wheel.
VisitedSlotHoldsOnlyDueEntries ==
    [][\A id \in LoopIds :
         TickWake(id) => Reinserted(slots[current_slot], now) = {}]_vars

\* the platform failures that are neither forbidden nor a bad request
OtherFailures ==
    {o \in PlatformOutcomes :
        /\ o # Returned
        /\ ~IsInstance(o, "TelegramForbiddenError")
        /\ ~IsInstance(o, "TelegramBadRequest")}

\* the entries the call has classified failed so far
FailedEntries(call) ==
    {call.result.failed[i] : i \in DOMAIN call.result.failed}
    \cup {call.chunk_result.failed[i] : i \in DOMAIN call.chunk_result.failed}

\* C28: after a platform call has failed with anything but a forbidden or a
\* bad-request error, no entry the call was about is classified failed: each
\* has a retry directive (or, when delete_messages turns out not to be
\* supported, is about to be deleted one by one).
OtherFailuresRetried ==
    [][\A o \in OtherFailures :
         WorkerMultiDelete(o) \/ WorkerSingleDelete(o) =>
            \A entry \in Affected :
                /\ entry \notin FailedEntries(worker_call')
                /\ \/ \E r \in RetryDirectives(worker_call') : r.entry = entry
                   \/ /\ worker_call.pc = "multi"
                      /\ DeleteChunkHandler(o) = "unsupported"
                      /\ worker_call'.pc = "single"]_vars

\* the forbidden outcomes of a platform call
Forbidden == {o \in PlatformOutcomes : IsInstance(o, "TelegramForbiddenError")}

\* the entries the call has classified deleted so far
DeletedEntries(call) ==
    {call.result.deleted[i] : i \in DOMAIN call.result.deleted}
    \cup {call.chunk_result.deleted[i] : i \in DOMAIN call.chunk_result.deleted}

\* C29: a forbidden platform call classifies each entry it was about (the
\* chunk of delete_messages, the entry of delete_message) failed, and neither
\* deleted nor to retry; when the chat task applies the result, every failed
\* entry leaves the index, is in no slot, and the failed counter has grown by
\* one for each of them (and for each retry given up).
ForbiddenIsTerminal ==
    [][/\ \A o \in Forbidden :
            WorkerMultiDelete(o) \/ WorkerSingleDelete(o) =>
                \A entry \in Affected :
                    /\ entry \in FailedEntries(worker_call')
                    /\ entry \notin DeletedEntries(worker_call')
                    /\ ~\E r \in RetryDirectives(worker_call') : r.entry = entry
       /\ \A task \in chat_tasks :
            ChatTaskReturn(task) =>
                LET failed == {worker_call.result.failed[i] :
                                    i \in DOMAIN worker_call.result.failed}
                    given_up == {r \in RetryDirectives(worker_call) :
                                    RetryExhausted(r.entry.attempt + 1)}
                IN  /\ \A entry \in failed :
                          /\ KeyOf(entry) \notin DOMAIN entries'
                          /\ \A i \in SlotIds : KeyOf(entry) \notin DOMAIN slots'[i]
                    /\ metrics'.failed_count
                          = metrics.failed_count + Cardinality(failed) + Cardinality(given_up)]_vars

\* a chat task has applied the result of a call whose delete_messages was
\* forbidden for a full chunk: the entries are counted failed and gone
ForbiddenChunkDropped ==
    /\ worker_call.pc = "returned"
    /\ chat_tasks = {}
    /\ last_event = "forbidden"
    /\ batch_delete_supported = "None"
    /\ Len(worker_call.result.failed) = MaxBatchSize
    /\ metrics.failed_count = MaxBatchSize
    /\ entries = EmptyDict

\* the bad-request outcomes of a platform call
BadRequests == {o \in PlatformOutcomes : IsInstance(o, "TelegramBadRequest")}

\* C30: when delete_message fails with a bad request, the entry is
\* classified deleted if the response says that the message is already
\* deleted or cannot be deleted, and failed for any other bad request; in
\* neither case does it get a retry directive.
BadRequestOneByOne ==
    [][\A o \in BadRequests :
         WorkerSingleDelete(o) =>
            \A entry \in Affected :
                /\ IF o.text \in {"message to delete not found", "message can't be deleted"}
                   THEN /\ entry \in DeletedEntries(worker_call')
                        /\ entry \notin FailedEntries(worker_call')
                   ELSE /\ entry \in FailedEntries(worker_call')
                        /\ entry \notin DeletedEntries(worker_call')
                /\ ~\E r \in RetryDirectives(worker_call') : r.entry = entry]_vars

\* a one-by-one call for a single entry has returned after a bad request,
\* with the entry classified deleted
AlreadyDeletedCountsAsDeleted ==
    /\ worker_call.pc = "returned"
    /\ ~worker_call.has_delete_messages
    /\ Len(worker_call.entries) = 1
    /\ last_event = "bad_request"
    /\ worker_call.result.deleted = worker_call.entries
    /\ worker_call.result.failed = <<>>
    /\ worker_call.result.retry = <<>>

\* C31: a bad request of delete_messages sends the worker through the same
\* chunk one entry at a time, from its first entry, with nothing of the chunk
\* classified yet and the capability flag as it was; and whenever the worker
\* begins a chunk (of this call or of a later one) with the flag not at
\* "unsupported", it tries delete_messages.
MalformedMultiDeleteFallsBack ==
    [][/\ \A o \in BadRequests :
            WorkerMultiDelete(o) =>
                /\ batch_delete_supported' = batch_delete_supported
                /\ worker_call'.pc = "single"
                /\ worker_call'.chunks = worker_call.chunks
                /\ worker_call'.index = 1
                /\ worker_call'.chunk_result = EmptyResult
                /\ worker_call'.result = worker_call.result
       /\ (/\ worker_call'.chunks # worker_call.chunks
           /\ worker_call'.chunks # <<>>
           /\ batch_delete_supported' # "False")
          => worker_call'.pc = "multi"]_vars

\* the first chunk has been deleted one by one after a bad request of its
\* delete_messages call (the flag is still unknown), and the worker is in
\* the delete_messages call of the second chunk
MultiDeleteTriedAfterFallback ==
    /\ worker_call.pc = "multi"
    /\ batch_delete_supported = "None"
    /\ Len(worker_call.chunks) = 1
    /\ Len(worker_call.result.deleted) = MaxBatchSize

\* a step that issues a delete_messages call
MultiDeleteIssued ==
    \/ /\ worker_call'.pc = "multi"
       /\ worker_call.pc # "multi" \/ worker_call'.chunks # worker_call.chunks
    \/ /\ concurrent_call'.pc = "multi"
       /\ concurrent_call.pc # "multi" \/ concurrent_call'.chunks # concurrent_call.chunks

\* C32: once the capability flag is "unsupported" it stays so, and no step
\* issues a delete_messages call: every chunk begun from then on is handled
\* one entry at a time.
UnsupportedIsPermanent ==
    [][batch_delete_supported = "False" =>
        /\ batch_delete_supported' = "False"
        /\ ~MultiDeleteIssued]_vars

\* the retry directives of a result whose key is not in the index
AbsentRetries(result) ==
    {x \in result : x.to = "retry" /\ KeyOf(x.entry) \notin DOMAIN entries}

RestoreEnqueuesNothing ==
    [][/\ (StartRestoreFetched(1) /\ callers[1].call.op = "start")
            => UNCHANGED <<persistence_queue, persistence_drop_count, store>>
       /\ \A i \in DOMAIN persistence_queue' :
            LET mutation == persistence_queue'[i]
                key == <<mutation.chat_id, mutation.message_id>>
            IN  mutation.op = "upsert" => mutation.attempt > StoredDocument(key).attempt]_vars

\* start() has restored as many records as the restore limit allows and the
\* persistence queue is empty
RestoredWithEmptyQueue ==
    /\ started /\ callers[1].pc = "idle"
    /\ metrics.restored_count = RestoreLimit
    /\ Cardinality(DOMAIN entries) = RestoreLimit
    /\ persistence_queue = <<>> /\ persistence_drop_count = 0
    /\ \A i \in LoopIds : persistence_loops[i].batch = <<>>

\* C35: a schedule call for a new key on a started engine whose persistence
\* queue is full returns true without suspending, leaves the queue as it is
\* and adds one to the drop counter, and the index, the slots and the
\* counters are those the same call gives with an empty queue.  The queue
\* never holds more than its size, and the drop counter grows only in steps
\* that leave the queue full.
FullQueueDropsMutation ==
    [][/\ \A b \in Handles, key \in PersistKeys, d \in PersistDelays, kind \in Kinds :
            (/\ started /\ ~shutting_down /\ key \notin DOMAIN entries
             /\ Len(persistence_queue) = QueueMaxSize
             /\ Schedule(1, b, key, d, kind, PersistStarts))
            => LET call == ScheduleCall(b, key, d, kind)
                   r == BeginCall(Eng, now, 1, call)
                   emptied == BeginCall([Eng EXCEPT !.persistence_queue = <<>>], now, 1, call)
               IN  /\ r.returned /\ r.ret = TRUE
                   /\ persistence_queue' = persistence_queue
                   /\ persistence_drop_count' = persistence_drop_count + 1
                   /\ key \in DOMAIN entries'
                   /\ entries' = emptied.eng.entries
                   /\ slots' = emptied.eng.slots
                   /\ metrics' = emptied.eng.metrics
                   /\ emptied.eng.persistence_drop_count = persistence_drop_count
       /\ Len(persistence_queue') <= QueueMaxSize
       /\ persistence_drop_count' # persistence_drop_count
            => /\ persistence_drop_count' > persistence_drop_count
               /\ Len(persistence_queue') = QueueMaxSize]_vars

\* the second schedule call for the key has been accepted while the queue
\* was full: its upsert is counted as dropped and the entry is pending
MutationDroppedEntryPending ==
    /\ persistence_drop_count = 1
    /\ Len(persistence_queue) = QueueMaxSize
    /\ metrics.scheduled_count = 2
    /\ Cardinality(DOMAIN entries) = 1
    /\ \A key \in DOMAIN entries : entries[key].attempt = 0 /\ SlotsOf(key) # {}

\* C36: every bulk write of the persistence loop and of the drain at
\* shutdown leaves the store as the mutations of its batch, applied in the
\* order the engine has queued them, make it; so a key whose last mutation
\* is the delete of its resolution has no record once the batch is written,
\* also when its upsert is in the same batch.
MutationsTakeEffectInOrder ==
    [][/\ \A id \in LoopIds :
            PersistenceFlushed(id) => store' = BulkWrite(store, persistence_loops[id].batch)
       /\ ShutdownDrained => store' = BulkWrite(store, shutdown_call.batch)]_vars

\* C37: when no call is in progress and the shutting-down flag is set
\* (shutdown() has been called after the last start() began, also while that
\* start() was suspended in index creation or in the restore), the engine
\* is stopped: no tick, metrics or persistence loop is running, the index
\* is empty and a schedule call returns false.
StoppedOnceShutdownAndStartAreThrough ==
    (shutting_down /\ callers[1].pc = "idle" /\ shutdown_call.pc = "idle")
    => /\ TickLoopsRunning = {}
       /\ metrics_loops = {}
       /\ PersistenceLoopsRunning = {}
       /\ entries = EmptyDict
       /\ \A b \in Handles, key \in PersistKeys, d \in PersistDelays, kind \in Kinds :
            BeginCall(Eng, now, 1, ScheduleCall(b, key, d, kind)).ret = FALSE

\* pending_count of get_metrics_snapshot
PendingCount == Cardinality(DOMAIN entries)

\* the entries counted as scheduled that are neither counted as deleted or
\* failed nor pending
Unaccounted ==
    metrics.scheduled_count - metrics.deleted_count - metrics.failed_count - PendingCount

\* C38 as stated: whenever the engine is started and not shutting down,
\* scheduled_count = deleted_count + failed_count + pending_count.
ScheduledIsResolvedPlusPending ==
    (started /\ ~shutting_down) => Unaccounted = 0

\* C38: scheduled_count - deleted_count - failed_count - pending_count is 0
\* on the new engine and changes in no step (schedule, restore, tick with
\* its reinsertions, result applied with its retries) but the one in which
\* shutdown() clears the index, which adds the number of entries it
\* discards; no step but a schedule call or a restore changes
\* scheduled_count.  So the equation holds up to the first shutdown() that
\* finds entries pending, and not after it.
CountersBalanceButForShutdown ==
    [][/\ Unaccounted' = Unaccounted + (IF ShutdownReturns THEN PendingCount ELSE 0)
       /\ metrics'.scheduled_count # metrics.scheduled_count
            => \/ StartRestoreFetched(1)
               \/ \E b \in Handles, key \in PersistKeys, d \in PersistDelays, kind \in Kinds :
                    Schedule(1, b, key, d, kind, PersistStarts)]_vars

\* the engine runs again after a shutdown() that discarded a pending entry:
\* one scheduled entry is neither deleted, failed nor pending
RestartedWithDiscardedEntry ==
    /\ started /\ ~shutting_down /\ tick_task = 2
    /\ metrics.scheduled_count = 1 /\ PendingCount = 0
    /\ Unaccounted = 1

\* C39: but for the time a shutdown() is in progress (it cancels the chat
\* tasks before it clears the index), every key of a wheel slot is in the
\* index with the same entry, and every key of the index is in exactly one
\* place: one wheel slot, or the batch of one chat task in flight.
IndexedKeysInOnePlace ==
    shutdown_call.pc = "idle" =>
        /\ \A i \in SlotIds : \A k \in DOMAIN slots[i] :
              k \in DOMAIN entries /\ entries[k] = slots[i][k]
        /\ \A k \in DOMAIN entries :
              Cardinality(SlotsOf(k)) + Cardinality(TasksOf(k)) = 1

\* C40: the pointer is never ahead of the clock: the slots visited since
\* start() set the pointer are at most the tick intervals gone by since
\* then, plus one; the slot last visited is the slot of the time or an
\* earlier one.
PointerNotAheadOfClock ==
    unwrapped_slot <= (now \div TickLen) + 1
====
